---------------------------- MODULE Spec2Model ----------------------------
(***************************************************************************)
(* A model of lib/assembly_graph.py: the double-stranded assembly graph    *)
(* (segments, forward/reverse link stores, paths) and its mutators.        *)
(*                                                                         *)
(* Conventions.                                                            *)
(*  - A Python dict is a TLA+ function whose DOMAIN is the set of keys.    *)
(*  - A Python list is a TLA+ sequence; a DNA string is a sequence of      *)
(*    one-character strings.                                               *)
(*  - A depth (a Python float) is an exact rational <<num, den>> in lowest *)
(*    terms with den > 0: floating-point rounding is not modelled.         *)
(*  - The iteration order of a Python 2 dict or set is not specified by    *)
(*    the language: wherever the code's result depends on it the model     *)
(*    chooses nondeterministically.                                        *)
(***************************************************************************)
EXTENDS Integers, Sequences, FiniteSets, TLC

VARIABLES
    segments,       \* self.segments: unsigned number -> Segment
    forward_links,  \* self.forward_links: signed number -> list of signed numbers
    reverse_links,  \* self.reverse_links: signed number -> list of signed numbers
    copy_depths,    \* self.copy_depths: unsigned number -> list of depths
    paths,          \* self.paths: path name -> list of signed numbers
    overlap,        \* self.overlap
    pc,             \* where the caller is: "idle", inside a loop, "crashed"
    lastOp,         \* the last public method that was called, with its arguments
    pre             \* the graph as it was when that method was called

vars == <<segments, forward_links, reverse_links, copy_depths, paths, overlap,
          pc, lastOp, pre>>

-----------------------------------------------------------------------------
(* Bounds of the model.                                                    *)

\* The most ordered links (u -> v) a store may hold before add_link is no
\* longer called (Spec), or the most link lines of a loaded file.
MaxLinks == 4

-----------------------------------------------------------------------------
(* Generic helpers.                                                        *)

Abs(n) == IF n < 0 THEN -n ELSE n

Range(s) == {s[i] : i \in 1..Len(s)}

EmptyMap == [x \in {} |-> <<>>]

RECURSIVE SetToSeq(_)
SetToSeq(S) == IF S = {} THEN <<>>
               ELSE LET m == CHOOSE x \in S : \A y \in S : x <= y
                    IN  <<m>> \o SetToSeq(S \ {m})

Max(S) == CHOOSE x \in S : \A y \in S : y <= x

RECURSIVE SumSeq(_)
SumSeq(s) == IF s = <<>> THEN 0 ELSE Head(s) + SumSeq(Tail(s))

-----------------------------------------------------------------------------
(* Depths: exact rationals.                                                *)

RECURSIVE Gcd(_, _)
Gcd(a, b) == IF b = 0 THEN a ELSE Gcd(b, a % b)

RNorm(n, d) ==
    LET s == IF d < 0 THEN -1 ELSE 1
        g == Gcd(Abs(n), Abs(d))
    IN  IF n = 0 THEN <<0, 1>> ELSE <<(s * n) \div g, (s * d) \div g>>

R(n) == <<n, 1>>
RAdd(x, y) == RNorm(x[1] * y[2] + y[1] * x[2], x[2] * y[2])
RSub(x, y) == RNorm(x[1] * y[2] - y[1] * x[2], x[2] * y[2])
RMul(x, y) == RNorm(x[1] * y[1], x[2] * y[2])
RDiv(x, y) == RNorm(x[1] * y[2], x[2] * y[1])
RLess(x, y) == x[1] * y[2] < y[1] * x[2]
RLeq(x, y) == x[1] * y[2] <= y[1] * x[2]

-----------------------------------------------------------------------------
(* Sequence utilities.                                                     *)

ComplementFrom ==
    <<"A","T","G","C","a","t","g","c","R","Y","S","W","K","M","r","y","s","w",
      "k","m","B","D","H","V","b","d","h","v","N","n",".","-","?">>
\* A faulty variant of ComplementTo: Y is its own complement.
ComplementToKeepsY ==
    <<"T","A","C","G","t","a","c","g","Y","Y","S","W","M","K","y","r","s","w",
      "m","k","V","H","D","B","v","h","d","b","N","n",".","-","?","N">>

ComplementTo ==
    <<"T","A","C","G","t","a","c","g","Y","R","S","W","M","K","y","r","s","w",
      "m","k","V","H","D","B","v","h","d","b","N","n",".","-","?","N">>

\* str.find: the first index (0-based in Python; 1-based here), 0 when absent
\* (Python's -1, which indexes the last character of the other string).
Find(table, c) ==
    IF \E i \in 1..Len(table) : table[i] = c
    THEN CHOOSE i \in 1..Len(table) :
            table[i] = c /\ \A j \in 1..(i - 1) : table[j] # c
    ELSE 0

complement_base(base) ==
    LET i == Find(ComplementFrom, base)
    IN  IF i = 0 THEN ComplementTo[Len(ComplementTo)] ELSE ComplementTo[i]

reverse_complement(seq) ==
    [i \in 1..Len(seq) |-> complement_base(seq[Len(seq) + 1 - i])]

UpperCase == <<"A","T","G","C","R","Y","S","W","K","M","B","D","H","V","N">>
LowerCase == <<"a","t","g","c","r","y","s","w","k","m","b","d","h","v","n">>

\* str.lower on one character
Lower(c) ==
    LET i == Find(UpperCase, c) IN IF i = 0 THEN c ELSE LowerCase[i]

-----------------------------------------------------------------------------
(* Segment.                                                                *)

\* Segment(number, depth, sequence, True) followed by
\* build_other_sequence_if_necessary()
Segment(number, depth, sequence) ==
    [number |-> number, depth |-> depth,
     forward_sequence |-> sequence,
     reverse_sequence |-> reverse_complement(sequence)]

get_length(seg) == Len(seg.forward_sequence)

get_length_no_overlap(seg, k) == Len(seg.forward_sequence) - k

is_homopolymer(seg) ==
    /\ Len(seg.forward_sequence) # 0
    /\ \A i \in 2..Len(seg.forward_sequence) :
          Lower(seg.forward_sequence[i]) = Lower(seg.forward_sequence[1])

-----------------------------------------------------------------------------
(* Link store.                                                             *)

\* A faulty variant of AppendIfAbsent: appends without the membership test.
AppendAlways(d, k, v) ==
    LET d1 == IF k \in DOMAIN d THEN d ELSE d @@ (k :> <<>>)
    IN  [d1 EXCEPT ![k] = Append(@, v)]

\* "if k not in d: d[k] = []" then "if v not in d[k]: d[k].append(v)"
AppendIfAbsent(d, k, v) ==
    LET d1 == IF k \in DOMAIN d THEN d ELSE d @@ (k :> <<>>)
    IN  IF v \in Range(d1[k]) THEN d1 ELSE [d1 EXCEPT ![k] = Append(@, v)]

\* A faulty variant of add_link: the reverse-complement twin is not recorded
\* in forward_links.
add_link_no_twin(fl, rl, start, end) ==
    LET f1 == AppendIfAbsent(fl, start, end)
        r1 == AppendIfAbsent(rl, end, start)
        r2 == AppendIfAbsent(r1, -start, -end)
    IN  [forward_links |-> f1, reverse_links |-> r2]

\* AssemblyGraph.add_link: the two dicts after the call
add_link(fl, rl, start, end) ==
    LET f1 == AppendIfAbsent(fl, start, end)
        r1 == AppendIfAbsent(rl, end, start)
        r2 == AppendIfAbsent(r1, -start, -end)
        f2 == AppendIfAbsent(f1, -end, -start)
    IN  [forward_links |-> f2, reverse_links |-> r2]

\* A faulty variant of remove_nums_from_links: only the keys are filtered.
remove_nums_from_links_keys_only(links, nums_to_remove) ==
    LET keys == {n_1 \in DOMAIN links : Abs(n_1) \notin nums_to_remove}
    IN  [n_1 \in keys |-> links[n_1]]

\* remove_nums_from_links
remove_nums_from_links(links, nums_to_remove) ==
    LET kept(n_1) == SelectSeq(links[n_1], LAMBDA x : Abs(x) \notin nums_to_remove)
        keys == {n_1 \in DOMAIN links :
                    Abs(n_1) \notin nums_to_remove /\ kept(n_1) # <<>>}
    IN  [n_1 \in keys |-> kept(n_1)]

\* The number of ordered links a forward (or reverse) dict holds.
NumLinks(links) == SumSeq([i \in 1..Len(SetToSeq(DOMAIN links)) |->
                              Len(links[SetToSeq(DOMAIN links)[i]])])

-----------------------------------------------------------------------------
(* The graph as one value: what a method reads and what it leaves.         *)

Graph(segs, fl, rl, ps, cds) ==
    [segments |-> segs, forward_links |-> fl, reverse_links |-> rl,
     paths |-> ps, copy_depths |-> cds]

Current == Graph(segments, forward_links, reverse_links, paths, copy_depths)

\* A faulty variant of remove_segments: the paths through the removed
\* segments are kept.
remove_segments_keeps_paths(g, nums_to_remove) ==
    [g EXCEPT
       !.segments = [num \in DOMAIN g.segments \ nums_to_remove |->
                        g.segments[num]],
       !.forward_links = remove_nums_from_links(g.forward_links, nums_to_remove),
       !.reverse_links = remove_nums_from_links(g.reverse_links, nums_to_remove)]

\* AssemblyGraph.remove_segments(nums_to_remove)
remove_segments(g, nums_to_remove) ==
    LET neg == {-x : x \in nums_to_remove}
        paths_to_delete ==
            {name \in DOMAIN g.paths :
                \/ nums_to_remove \cap Range(g.paths[name]) # {}
                \/ neg \cap Range(g.paths[name]) # {}}
    IN  [g EXCEPT
           !.segments = [num \in DOMAIN g.segments \ nums_to_remove |->
                            g.segments[num]],
           !.forward_links = remove_nums_from_links(g.forward_links, nums_to_remove),
           !.reverse_links = remove_nums_from_links(g.reverse_links, nums_to_remove),
           !.paths = [name \in DOMAIN g.paths \ paths_to_delete |-> g.paths[name]]]

NoOp == [op |-> "none", a |-> 0, b |-> 0, S |-> {}]
Op(name, a, b, S) == [op |-> name, a |-> a, b |-> b, S |-> S]

\* The graph variables become those of g.
Becomes(g) ==
    /\ segments' = g.segments
    /\ forward_links' = g.forward_links
    /\ reverse_links' = g.reverse_links
    /\ paths' = g.paths
    /\ copy_depths' = g.copy_depths

-----------------------------------------------------------------------------
(* Spec: the link store under add_link and remove_segments.                *)

\* The segment numbers of the store's example, add_link(5, -7).
StoreNums == {5, 7}
StoreSigned == StoreNums \cup {-x : x \in StoreNums}

StoreSegments ==
    [num \in StoreNums |-> Segment(num, R(1), <<"A", "C", "G", "T">>)]

Init ==
    /\ segments = StoreSegments
    /\ forward_links = EmptyMap
    /\ reverse_links = EmptyMap
    /\ copy_depths = EmptyMap
    /\ paths \in {EmptyMap, ("NODE_1" :> <<5, -7>>)}
    /\ overlap = 3
    /\ pc = "idle"
    /\ lastOp = NoOp
    /\ pre = Graph(StoreSegments, EmptyMap, EmptyMap, EmptyMap, EmptyMap)

AddLink(start, end) ==
    /\ pc = "idle"
    /\ NumLinks(forward_links) < MaxLinks
    /\ LET s == add_link(forward_links, reverse_links, start, end)
       IN  /\ forward_links' = s.forward_links
           /\ reverse_links' = s.reverse_links
    /\ pre' = Current
    /\ lastOp' = Op("add_link", start, end, {})
    /\ UNCHANGED <<segments, copy_depths, paths, overlap, pc>>

RemoveSegments(nums) ==
    /\ pc = "idle"
    /\ Becomes(remove_segments(Current, nums))
    /\ pre' = Current
    /\ lastOp' = Op("remove_segments", 0, 0, nums)
    /\ UNCHANGED <<overlap, pc>>

Next ==
    \/ \E start \in StoreSigned, end \in StoreSigned : AddLink(start, end)
    \/ \E nums \in SUBSET StoreNums : RemoveSegments(nums)

Spec == Init /\ [][Next]_vars

-----------------------------------------------------------------------------
(* Construction: what load_from_gfa leaves of a file's S, L and P lines.   *)

\* A faulty variant of is_link_positive: the link that is its own twin is
\* not told apart, so a mixed-sign link is judged by absolute value alone.
is_link_positive_no_palindrome(start, end) ==
    IF start > 0 /\ end > 0 THEN TRUE
    ELSE IF start < 0 /\ end < 0 THEN FALSE
    ELSE Abs(start) > Abs(end)

is_link_positive(start, end) ==
    IF start > 0 /\ end > 0 THEN TRUE
    ELSE IF start < 0 /\ end < 0 THEN FALSE
    ELSE IF start = -end THEN TRUE
    ELSE Abs(start) > Abs(end)

\* The loop over the L lines: forward_links[start].append(end), the lines
\* taken in the order of the sequence.
RECURSIVE ReadLinkLines(_, _)
ReadLinkLines(links, lines) ==
    IF lines = <<>> THEN links
    ELSE LET start == Head(lines)[1]
             end == Head(lines)[2]
             d == IF start \in DOMAIN links
                  THEN [links EXCEPT ![start] = Append(@, end)]
                  ELSE links @@ (start :> <<end>>)
         IN  ReadLinkLines(d, Tail(lines))

\* build_rc_links_if_necessary, the keys of links taken in ascending order.
\* new_links is a shallow copy: a list appended to is the list the loop reads.
RECURSIVE BuildRc(_, _)
BuildRc(new_links, todo) ==
    IF todo = <<>> THEN new_links
    ELSE LET start == Head(todo)[1]
             end == Head(todo)[2]
         IN  BuildRc(AppendIfAbsent(new_links, -end, -start), Tail(todo))

\* All (start, end) of a link dict, keys ascending, each list in its order.
RECURSIVE FlattenFrom(_, _)
FlattenFrom(links, keys) ==
    IF keys = <<>> THEN <<>>
    ELSE [i \in 1..Len(links[Head(keys)]) |-> <<Head(keys), links[Head(keys)][i]>>]
         \o FlattenFrom(links, Tail(keys))

Flatten(links) == FlattenFrom(links, SetToSeq(DOMAIN links))

build_rc_links_if_necessary(links) == BuildRc(links, Flatten(links))

RECURSIVE BuildReverse(_, _)
BuildReverse(reverse, todo) ==
    IF todo = <<>> THEN reverse
    ELSE LET start == Head(todo)[1]
             end == Head(todo)[2]
             d == IF end \in DOMAIN reverse
                  THEN [reverse EXCEPT ![end] = Append(@, start)]
                  ELSE reverse @@ (end :> <<start>>)
         IN  BuildReverse(d, Tail(todo))

build_reverse_links(links) == BuildReverse(EmptyMap, Flatten(links))

\* load_from_gfa: the graph of a file with the given segments, link lines
\* and paths.
load_from_gfa(segs, lines, ps) ==
    LET fl == build_rc_links_if_necessary(ReadLinkLines(EmptyMap, lines))
    IN  Graph(segs, fl, build_reverse_links(fl), ps, EmptyMap)

Signed(nums) == nums \cup {-x : x \in nums}

\* One link line per reverse-complement pair, as save_to_gfa writes them.
LinkLines(nums) ==
    {l \in Signed(nums) \X Signed(nums) : is_link_positive(l[1], l[2])}

\* A total order on link lines, to list a set of them as a file does.
LineBefore(l, m) == l[1] < m[1] \/ (l[1] = m[1] /\ l[2] < m[2])

RECURSIVE LinesToSeq(_)
LinesToSeq(S) ==
    IF S = {} THEN <<>>
    ELSE LET m == CHOOSE x \in S : \A y \in S \ {x} : LineBefore(x, y)
         IN  <<m>> \o LinesToSeq(S \ {m})

\* The subsets of the elements i.. of a sequence that have at most k elements.
RECURSIVE SubsetsUpTo(_, _, _)
SubsetsUpTo(seq, i, k) ==
    IF k = 0 \/ i > Len(seq) THEN {{}}
    ELSE SubsetsUpTo(seq, i + 1, k) \cup
         {{seq[i]} \cup T : T \in SubsetsUpTo(seq, i + 1, k - 1)}

\* The files' link sections: at most k link lines over the given numbers.
LinkFiles(nums, k) ==
    {LinesToSeq(S) : S \in SubsetsUpTo(LinesToSeq(LinkLines(nums)), 1, k)}

-----------------------------------------------------------------------------
(* SpecLoad: the link store of a graph loaded from any file, then under    *)
(* add_link and remove_segments.                                           *)

\* get_all_gfa_link_lines, as the list of the (start, end) it writes
get_all_gfa_link_lines(g) ==
    SelectSeq(Flatten(g.forward_links),
              LAMBDA l : is_link_positive(l[1], l[2]))

LoadNums == {1, 2}

\* The most L lines of a file.
MaxLoadLines == 2

\* The link sections of the files: any L lines in any order, a line twice
\* and a link with its reverse complement included.
LoadFiles ==
    UNION {[1..n -> Signed(LoadNums) \X Signed(LoadNums)] : n \in 0..MaxLoadLines}

LoadSegments ==
    [num \in LoadNums |-> Segment(num, R(1), <<"A", "C", "G", "T">>)]

InitLoad ==
    /\ \E lines \in LoadFiles :
          LET g == load_from_gfa(LoadSegments, lines, EmptyMap)
          IN  /\ segments = g.segments
              /\ forward_links = g.forward_links
              /\ reverse_links = g.reverse_links
              /\ paths = g.paths
              /\ copy_depths = g.copy_depths
              /\ pre = g
    /\ overlap = 3
    /\ pc = "idle"
    /\ lastOp = NoOp

NextLoad ==
    \/ \E start \in Signed(LoadNums), end \in Signed(LoadNums) : AddLink(start, end)
    \/ \E num \in DOMAIN segments : RemoveSegments({num})

SpecLoad == InitLoad /\ [][NextLoad]_vars

-----------------------------------------------------------------------------
(* Paths.                                                                  *)

\* lst[i:j] of Python for 0 <= i <= j (0-based, j exclusive), clipped
Slice(lst, i, j) ==
    LET hi == IF j > Len(lst) THEN Len(lst) ELSE j
    IN  IF i >= hi THEN <<>> ELSE SubSeq(lst, i + 1, hi)

\* A faulty variant of DropLast: the overlap is not cut off.
DropNothing(seq, k) == seq

\* seq[:-k] of Python for k >= 0: note that seq[:-0] is seq[:0], the empty list
DropLast(seq, k) ==
    IF k = 0 THEN <<>>
    ELSE IF Len(seq) <= k THEN <<>> ELSE SubSeq(seq, 1, Len(seq) - k)

RECURSIVE find_replace_in_list(_, _, _)
find_replace_in_list(lst, pattern, replacement) ==
    LET hits == {i \in 1..Len(lst) :
                    Slice(lst, i - 1, i - 1 + Len(pattern)) = pattern}
    IN  IF hits = {} THEN lst
        ELSE LET i == CHOOSE x \in hits : \A y \in hits : x <= y
             IN  find_replace_in_list(
                     Slice(lst, 0, i - 1) \o <<replacement>> \o
                     Slice(lst, i - 1 + Len(pattern), Len(lst)),
                     pattern, replacement)

\* The pieces of split_path before the pieces of one element or none are
\* thrown out.
RECURSIVE SplitPieces(_, _)
SplitPieces(path, seg) ==
    IF seg \in Range(path)
    THEN LET seg_i == CHOOSE i \in 1..Len(path) :
                         path[i] = seg /\ \A j \in 1..(i - 1) : path[j] # seg
         IN  <<Slice(path, 0, seg_i - 1)>> \o
             SplitPieces(Slice(path, seg_i, Len(path)), seg)
    ELSE <<path>>

split_path(path, seg) ==
    SelectSeq(SplitPieces(path, seg), LAMBDA x : Len(x) > 1)

RECURSIVE Concat(_)
Concat(ss) == IF ss = <<>> THEN <<>> ELSE Head(ss) \o Concat(Tail(ss))

RECURSIVE split_path_multiple_from(_, _)
split_path_multiple_from(path_parts, segs) ==
    IF segs = <<>> THEN path_parts
    ELSE split_path_multiple_from(
             Concat([i \in 1..Len(path_parts) |-> split_path(path_parts[i], Head(segs))]),
             Tail(segs))

split_path_multiple(path, segs) == split_path_multiple_from(<<path>>, segs)

insert_num_in_list(lst, val_1, val_2, insert_val) ==
    IF Len(lst) < 2 THEN lst
    ELSE Concat([i \in 1..(Len(lst) - 1) |->
                    IF lst[i] = val_1 /\ lst[i + 1] = val_2
                    THEN <<lst[i], insert_val>> ELSE <<lst[i]>>])
         \o <<lst[Len(lst)]>>

-----------------------------------------------------------------------------
(* Merging.                                                                *)

get_seq_from_signed_seg_num(g, signed_num) ==
    IF signed_num > 0 THEN g.segments[signed_num].forward_sequence
    ELSE g.segments[-signed_num].reverse_sequence

get_next_available_seg_number(g) == Max(DOMAIN g.segments) + 1

\* "for link in links: self.add_link(new_seg_num, link)" (outgoing) and
\* "self.add_link(link, new_seg_num)" (incoming), on a record of the two dicts
RECURSIVE AddOutgoing(_, _, _)
AddOutgoing(store, new_seg_num, links) ==
    IF links = <<>> THEN store
    ELSE AddOutgoing(add_link(store.forward_links, store.reverse_links,
                              new_seg_num, Head(links)),
                     new_seg_num, Tail(links))

RECURSIVE AddIncoming(_, _, _)
AddIncoming(store, new_seg_num, links) ==
    IF links = <<>> THEN store
    ELSE AddIncoming(add_link(store.forward_links, store.reverse_links,
                              Head(links), new_seg_num),
                     new_seg_num, Tail(links))

\* The last loop of merge_two_segments: the new paths dict, from the paths in
\* which the pair has been replaced. Two pieces never get the same name as
\* long as no path is named like another path's piece.
SplitPaths(paths_copy, segs) ==
    LET pieces(name) == split_path_multiple(paths_copy[name], segs)
        entries ==
            UNION {IF Len(pieces(name)) = 1 THEN {<<name, pieces(name)[1]>>}
                   ELSE {<<name \o "_" \o ToString(i), pieces(name)[i]>> :
                            i \in 1..Len(pieces(name))} :
                   name \in DOMAIN paths_copy}
    IN  [n \in {e[1] : e \in entries} |->
            (CHOOSE e \in entries : e[1] = n)[2]]

\* AssemblyGraph.merge_two_segments, for seg_num_1 and seg_num_2 whose
\* segments exist (else the method raises KeyError).
merge_two_segments(g, k, seg_num_1, seg_num_2) ==
    LET seg_1 == g.segments[Abs(seg_num_1)]
        seg_2 == g.segments[Abs(seg_num_2)]
        seg_1_seq == get_seq_from_signed_seg_num(g, seg_num_1)
        seg_2_seq == get_seq_from_signed_seg_num(g, seg_num_2)
        merged_forward_seq == DropLast(seg_1_seq, k) \o seg_2_seq
        merged_reverse_seq == reverse_complement(merged_forward_seq)
        seg_1_len == get_length(seg_1) - k
        seg_2_len == get_length(seg_2) - k
        len_sum == seg_1_len + seg_2_len
        mean_depth ==
            IF len_sum > 0
            THEN RAdd(RMul(seg_1.depth, RNorm(seg_1_len, len_sum)),
                      RMul(seg_2.depth, RNorm(seg_2_len, len_sum)))
            ELSE R(1)
        new_seg_num == IF seg_2_len > seg_1_len THEN Abs(seg_num_2)
                       ELSE get_next_available_seg_number(g)
        new_seg == [number |-> new_seg_num, depth |-> mean_depth,
                    forward_sequence |-> merged_forward_seq,
                    reverse_sequence |-> merged_reverse_seq]
        outgoing_links == IF seg_num_2 \in DOMAIN g.forward_links
                          THEN g.forward_links[seg_num_2] ELSE <<>>
        incoming_links == IF seg_num_1 \in DOMAIN g.reverse_links
                          THEN g.reverse_links[seg_num_1] ELSE <<>>
        removed == remove_segments(g, {Abs(seg_num_1), Abs(seg_num_2)})
        store == AddIncoming(
                     AddOutgoing([forward_links |-> removed.forward_links,
                                  reverse_links |-> removed.reverse_links],
                                 new_seg_num, outgoing_links),
                     new_seg_num, incoming_links)
        paths_copy ==
            [name \in DOMAIN g.paths |->
                find_replace_in_list(
                    find_replace_in_list(g.paths[name],
                                         <<seg_num_1, seg_num_2>>, new_seg_num),
                    <<-seg_num_2, -seg_num_1>>, -new_seg_num)]
    IN  [removed EXCEPT
           !.segments = (new_seg_num :> new_seg) @@ removed.segments,
           !.forward_links = store.forward_links,
           !.reverse_links = store.reverse_links,
           !.paths = SplitPaths(paths_copy,
                                <<seg_num_1, seg_num_2, -seg_num_1, -seg_num_2>>)]

\* The tests of try_to_merge_two_segments: TRUE when it goes on to merge.
CanMerge(g, seg_num_1, seg_num_2) ==
    /\ seg_num_1 # seg_num_2
    /\ seg_num_1 \in DOMAIN g.forward_links
    /\ seg_num_2 \in DOMAIN g.reverse_links
    /\ Len(g.forward_links[seg_num_1]) = 1
    /\ Len(g.reverse_links[seg_num_2]) = 1
    /\ g.forward_links[seg_num_1][1] = seg_num_2
    /\ g.reverse_links[seg_num_2][1] = seg_num_1

\* merge_two_segments reads self.segments[abs(seg_num)] of both numbers.
MergeRaises(g, seg_num_1, seg_num_2) ==
    \/ Abs(seg_num_1) \notin DOMAIN g.segments
    \/ Abs(seg_num_2) \notin DOMAIN g.segments

\* One pass of the for loop of merge_all_possible at segment num: the
\* strand whose merge is tried and succeeds (0: neither).
MergeStrand(g, num) ==
    IF /\ num \in DOMAIN g.forward_links
       /\ Len(g.forward_links[num]) = 1
       /\ CanMerge(g, num, g.forward_links[num][1])
    THEN num
    ELSE IF /\ -num \in DOMAIN g.forward_links
            /\ Len(g.forward_links[-num]) = 1
            /\ CanMerge(g, -num, g.forward_links[-num][1])
         THEN -num
         ELSE 0

\* The most merges one call of merge_all_possible is followed through.
MaxMerges == 4

\* merge_all_possible: every way the call can end, the segments being
\* visited in any order. "returned" with the graph it leaves, "raised" with
\* the graph as it was when merge_two_segments raised KeyError, "running"
\* when the call has not returned after MaxMerges merges.
RECURSIVE merge_all_possible(_, _, _)
merge_all_possible(g, k, fuel) ==
    LET nums == {num \in DOMAIN g.segments : MergeStrand(g, num) # 0}
    IN  IF nums = {} THEN {[outcome |-> "returned", g |-> g]}
        ELSE IF fuel = 0 THEN {[outcome |-> "running", g |-> g]}
        ELSE UNION {
               LET seg_num_1 == MergeStrand(g, num)
                   seg_num_2 == g.forward_links[seg_num_1][1]
               IN  IF MergeRaises(g, seg_num_1, seg_num_2)
                   THEN {[outcome |-> "raised", g |-> g]}
                   ELSE merge_all_possible(
                            merge_two_segments(g, k, seg_num_1, seg_num_2),
                            k, fuel - 1) :
               num \in nums}

\* try_to_merge_two_segments(seg_num_1, seg_num_2) when it merges; a call
\* that returns False changes nothing.
TryToMergeTwoSegments(seg_num_1, seg_num_2) ==
    /\ pc = "idle"
    /\ CanMerge(Current, seg_num_1, seg_num_2)
    /\ pre' = Current
    /\ lastOp' = Op("try_to_merge_two_segments", seg_num_1, seg_num_2, {})
    /\ IF MergeRaises(Current, seg_num_1, seg_num_2)
       THEN /\ pc' = "raised"
            /\ UNCHANGED <<segments, forward_links, reverse_links,
                           copy_depths, paths>>
       ELSE /\ pc' = "idle"
            /\ Becomes(merge_two_segments(Current, overlap, seg_num_1, seg_num_2))
    /\ UNCHANGED overlap

MergeAllPossible ==
    /\ pc = "idle"
    /\ pre' = Current
    /\ lastOp' = Op("merge_all_possible", 0, 0, {})
    /\ \E end \in merge_all_possible(Current, overlap, MaxMerges) :
          /\ pc' = IF end.outcome = "returned" THEN "idle" ELSE end.outcome
          /\ Becomes(end.g)
    /\ UNCHANGED overlap

-----------------------------------------------------------------------------
(* SpecMerge: merging in graphs loaded from a file.                        *)

\* The segments of the linear-merge example; shorter segments are prefixes.
ExampleSeqs ==
    <<  <<"A","A","A","A","A">>,  <<"A","A","A","T","T">>,  <<"T","T","G","G","G">>  >>
ExampleDepths == <<10, 20, 30>>
MergeNums == 1..Len(ExampleSeqs)

\* The lengths a segment may have, and the overlaps a graph may have.
MergeLens == {3, 5}
MergeOverlaps == {0, 3}

\* The most link lines of a file.
MaxMergeLines == 2

MergeSegments(lens) ==
    [num \in MergeNums |->
        Segment(num, R(ExampleDepths[num]), SubSeq(ExampleSeqs[num], 1, lens[num]))]

InitMerge ==
    /\ \E lens \in [MergeNums -> MergeLens],
          lines \in LinkFiles(MergeNums, MaxMergeLines) :
          LET g == load_from_gfa(MergeSegments(lens), lines, EmptyMap)
          IN  /\ segments = g.segments
              /\ forward_links = g.forward_links
              /\ reverse_links = g.reverse_links
              /\ paths = g.paths
              /\ copy_depths = g.copy_depths
              /\ pre = g
    /\ overlap \in MergeOverlaps
    /\ pc = "idle"
    /\ lastOp = NoOp

NextMerge ==
    \/ \E seg_num_1 \in Signed(DOMAIN segments), seg_num_2 \in Signed(DOMAIN segments) :
          TryToMergeTwoSegments(seg_num_1, seg_num_2)
    \/ MergeAllPossible

SpecMerge == InitMerge /\ [][NextMerge]_vars

-----------------------------------------------------------------------------
(* Four-way junctions.                                                     *)

\* A faulty variant of the dict assignment: the dict is replaced by one that
\* holds the new key alone.
PutAlone(d, k, v) == [x \in {k} |-> v]

\* d[k] = v of a dict
Put(d, k, v) == [x \in DOMAIN d \cup {k} |-> IF x = k THEN v ELSE d[x]]

\* a run of assignments d[k] = v, in order
RECURSIVE PutAll(_, _)
PutAll(d, kvs) ==
    IF kvs = <<>> THEN d
    ELSE PutAll(Put(d, Head(kvs)[1], Head(kvs)[2]), Tail(kvs))

\* seq[:k] of Python for k >= 0
Prefix(seq, k) == SubSeq(seq, 1, IF k < Len(seq) THEN k ELSE Len(seq))

\* The orders in which a dict's keys can be listed.
Orders(S) ==
    {f \in [1..Cardinality(S) -> S] : \A x \in S : \E i \in DOMAIN f : f[i] = x}

\* The body of the loop of repair_four_way_junctions once a junction has
\* been detected: the bridge segment, the twelve link assignments and the
\* paths. "end_1 > 0" compares a Segment with an int, which is true in
\* Python 2, so the bridge is cut from end_1's forward sequence. Every
\* insert_num_in_list reads the path as it was, so only the last stays.
RepairJunction(g, k, start_num_1, start_num_2, end_num_1, end_num_2) ==
    LET start_1 == g.segments[Abs(start_num_1)]
        start_2 == g.segments[Abs(start_num_2)]
        end_1 == g.segments[Abs(end_num_1)]
        end_2 == g.segments[Abs(end_num_2)]
        bridge_seq == Prefix(end_1.forward_sequence, k)
        bridge_depth ==
            RDiv(RAdd(RAdd(start_1.depth, start_2.depth),
                      RAdd(end_1.depth, end_2.depth)), R(2))
        bridge_num == get_next_available_seg_number(g)
        bridge_seg == Segment(bridge_num, bridge_depth, bridge_seq)
    IN  [g EXCEPT
           !.segments = Put(g.segments, bridge_num, bridge_seg),
           !.forward_links =
               PutAll(g.forward_links,
                      << <<start_num_1, <<bridge_num>> >>,
                         <<start_num_2, <<bridge_num>> >>,
                         <<bridge_num, <<end_num_1, end_num_2>> >>,
                         <<-bridge_num, <<-start_num_1, -start_num_2>> >>,
                         <<-end_num_1, <<-bridge_num>> >>,
                         <<-end_num_2, <<-bridge_num>> >> >>),
           !.reverse_links =
               PutAll(g.reverse_links,
                      << <<bridge_num, <<start_num_1, start_num_2>> >>,
                         <<end_num_1, <<bridge_num>> >>,
                         <<end_num_2, <<bridge_num>> >>,
                         <<-start_num_1, <<-bridge_num>> >>,
                         <<-start_num_2, <<-bridge_num>> >>,
                         <<-bridge_num, <<-end_num_1, -end_num_2>> >> >>),
           !.paths =
               [name \in DOMAIN g.paths |->
                   insert_num_in_list(g.paths[name], -end_num_2, -start_num_2,
                                      -bridge_num)]]

\* repair_four_way_junctions over the list seg_nums: every way the call can
\* end, list(set(...)) giving the two starts in either order. "raised" is a
\* KeyError on a link whose end has no entry or no segment.
RECURSIVE repair_four_way_junctions(_, _, _)
repair_four_way_junctions(g, k, seg_nums) ==
    IF seg_nums = <<>> THEN {[outcome |-> "returned", g |-> g]}
    ELSE
      LET seg_num == Head(seg_nums)
          next == repair_four_way_junctions(g, k, Tail(seg_nums))
      IN  IF seg_num \notin DOMAIN g.forward_links THEN next
          ELSE IF Len(g.forward_links[seg_num]) # 2 THEN next
          ELSE
            LET end_num_1 == g.forward_links[seg_num][1]
                end_num_2 == g.forward_links[seg_num][2]
            IN  IF end_num_1 \notin DOMAIN g.reverse_links
                THEN {[outcome |-> "raised", g |-> g]}
                ELSE IF Len(g.reverse_links[end_num_1]) # 2 THEN next
                ELSE IF end_num_2 \notin DOMAIN g.reverse_links
                THEN {[outcome |-> "raised", g |-> g]}
                ELSE IF Len(g.reverse_links[end_num_2]) # 2 THEN next
                ELSE
                  LET starting_segs == Range(g.reverse_links[end_num_1])
                  IN  IF Cardinality(starting_segs) # 2 THEN next
                      ELSE UNION {
                             IF {Abs(start_num_1), Abs(start_num_2),
                                 Abs(end_num_1), Abs(end_num_2)}
                                    \subseteq DOMAIN g.segments
                             THEN repair_four_way_junctions(
                                      RepairJunction(g, k, start_num_1, start_num_2,
                                                     end_num_1, end_num_2),
                                      k, Tail(seg_nums))
                             ELSE {[outcome |-> "raised", g |-> g]} :
                             <<start_num_1, start_num_2>> \in
                                 {p \in starting_segs \X starting_segs : p[1] # p[2]}}

\* The most segments of a graph on which repair_four_way_junctions is called.
MaxRepairSegments == 4

\* repair_four_way_junctions(): seg_nums is the keys of the segments dict
\* followed by their negations, the keys in the same order both times.
RepairFourWayJunctions ==
    /\ pc = "idle"
    /\ Cardinality(DOMAIN segments) <= MaxRepairSegments
    /\ pre' = Current
    /\ lastOp' = Op("repair_four_way_junctions", 0, 0, {})
    /\ \E keys \in Orders(DOMAIN segments) :
          \E end \in repair_four_way_junctions(
                         Current, overlap,
                         keys \o [i \in DOMAIN keys |-> -keys[i]]) :
             /\ pc' = IF end.outcome = "returned" THEN "idle" ELSE end.outcome
             /\ Becomes(end.g)
    /\ UNCHANGED overlap

-----------------------------------------------------------------------------
(* SpecRepair: the operations that rewrite segments, links and paths, in   *)
(* graphs loaded from a file with a path.                                  *)

\* The most link lines of a file, and the most segments of its path.
MaxRepairLines == 3
MaxPathLen == 3

\* The lists of n signed numbers that follow the links.
RECURSIVE WalksOfLen(_, _)
WalksOfLen(fl, n) ==
    IF n = 1 THEN {<<u>> : u \in DOMAIN fl}
    ELSE {Append(w, v) : <<w, v>> \in
             UNION {{<<w, v>> : v \in IF w[Len(w)] \in DOMAIN fl
                                      THEN Range(fl[w[Len(w)]]) ELSE {}} :
                    w \in WalksOfLen(fl, n - 1)}}

\* The P lines a file may have: none, or one path of 2..MaxPathLen segments
\* that follows the links of the file.
PathFiles(fl) ==
    {EmptyMap} \cup
    {("NODE_1" :> w) : w \in UNION {WalksOfLen(fl, n) : n \in 2..MaxPathLen}}

\* Segment lengths such that a merge takes its number either way.
RepairLens == <<4, 5, 5>>

InitRepair ==
    /\ \E lines \in LinkFiles(MergeNums, MaxRepairLines) :
          LET g0 == load_from_gfa(MergeSegments(RepairLens), lines, EmptyMap)
          IN  \E ps \in PathFiles(g0.forward_links) :
                 LET g == [g0 EXCEPT !.paths = ps]
                 IN  /\ segments = g.segments
                     /\ forward_links = g.forward_links
                     /\ reverse_links = g.reverse_links
                     /\ paths = g.paths
                     /\ copy_depths = g.copy_depths
                     /\ pre = g
    /\ overlap = 3
    /\ pc = "idle"
    /\ lastOp = NoOp

NextRepair ==
    \/ \E num \in DOMAIN segments : RemoveSegments({num})
    \/ \E seg_num_1 \in Signed(DOMAIN segments), seg_num_2 \in Signed(DOMAIN segments) :
          TryToMergeTwoSegments(seg_num_1, seg_num_2)
    \/ MergeAllPossible
    \/ RepairFourWayJunctions

SpecRepair == InitRepair /\ [][NextRepair]_vars

-----------------------------------------------------------------------------
(* Traversal and metrics.                                                  *)

\* A faulty variant of get_connected_segments: the reverse links are not
\* looked at.
get_downstream_segments(g, segment_num) ==
    {Abs(x) : x \in IF segment_num \in DOMAIN g.forward_links
                    THEN Range(g.forward_links[segment_num]) ELSE {}}

\* get_connected_segments, as the set it builds
get_connected_segments(g, segment_num) ==
    {Abs(x) : x \in IF segment_num \in DOMAIN g.forward_links
                    THEN Range(g.forward_links[segment_num]) ELSE {}}
    \cup
    {Abs(x) : x \in IF segment_num \in DOMAIN g.reverse_links
                    THEN Range(g.reverse_links[segment_num]) ELSE {}}

\* The while loop of get_connected_components: the queue q is emptied,
\* each segment taken from it goes to the component and its neighbours not
\* yet visited go to the queue.
RECURSIVE VisitQueue(_, _, _, _)
VisitQueue(g, q, visited, component) ==
    IF q = <<>> THEN [component |-> component, visited |-> visited]
    ELSE LET w == Head(q)
             new == SetToSeq(get_connected_segments(g, w) \ visited)
         IN  VisitQueue(g, Tail(q) \o new, visited \cup Range(new),
                        Append(component, w))

\* The for loop of get_connected_components over the keys of the segments.
RECURSIVE VisitKeys(_, _, _, _)
VisitKeys(g, keys, visited, components) ==
    IF keys = <<>> THEN components
    ELSE LET v == Head(keys)
         IN  IF v \in visited
             THEN VisitKeys(g, Tail(keys), visited, components)
             ELSE LET c == VisitQueue(g, <<v>>, visited \cup {v}, <<>>)
                  IN  VisitKeys(g, Tail(keys), c.visited,
                                Append(components, c.component))

\* get_connected_components, the keys of the segments dict being listed as
\* keys: a list of lists of segment numbers.
get_connected_components(g, keys) == VisitKeys(g, keys, {}, <<>>)

\* sorted(segment_list, key=lambda x: x.depth): a stable insertion
RECURSIVE SortedByDepth(_)
SortedByDepth(segment_list) ==
    IF segment_list = <<>> THEN <<>>
    ELSE LET rest == SortedByDepth(SubSeq(segment_list, 1, Len(segment_list) - 1))
             seg == segment_list[Len(segment_list)]
             n == Cardinality({i \in 1..Len(rest) : RLeq(rest[i].depth, seg.depth)})
         IN  SubSeq(rest, 1, n) \o <<seg>> \o SubSeq(rest, n + 1, Len(rest))

\* the values of the segments dict
SegmentValues(segs) ==
    [i \in 1..Cardinality(DOMAIN segs) |-> segs[SetToSeq(DOMAIN segs)[i]]]

\* get_median_read_depth(segment_list); an empty list stands for None
get_median_read_depth(g, k, segment_list) ==
    LET list == IF segment_list = <<>> THEN SegmentValues(g.segments)
                ELSE segment_list
        sorted_segments == SortedByDepth(list)
        length_so_far(i) ==
            SumSeq([j \in 1..i |-> get_length_no_overlap(sorted_segments[j], k)])
        total_length == length_so_far(Len(sorted_segments))
        halfway_length == total_length \div 2
        reached == {i \in 1..Len(sorted_segments) :
                       length_so_far(i) >= halfway_length}
    IN  IF reached = {} THEN R(0)
        ELSE sorted_segments[CHOOSE i \in reached : \A j \in reached : i <= j].depth

dead_end_count(g, segment) ==
    (IF segment.number \notin DOMAIN g.forward_links THEN 1 ELSE 0) +
    (IF segment.number \notin DOMAIN g.reverse_links THEN 1 ELSE 0)

\* A faulty variant of all_segments_below_depth: one segment below the
\* cutoff is enough.
some_segment_below_depth(g, segment_nums, cutoff) ==
    \E i \in 1..Len(segment_nums) :
        RLess(g.segments[segment_nums[i]].depth, cutoff)

all_segments_below_depth(g, segment_nums, cutoff) ==
    \A i \in 1..Len(segment_nums) :
        ~RLeq(cutoff, g.segments[segment_nums[i]].depth)

\* deleting_would_create_dead_end, for a segment with links on both ends
deleting_would_create_dead_end(g, segment) ==
    \/ \E i \in 1..Len(g.forward_links[segment.number]) :
          Len(g.reverse_links[g.forward_links[segment.number][i]]) = 1
    \/ \E i \in 1..Len(g.reverse_links[segment.number]) :
          Len(g.forward_links[g.reverse_links[segment.number][i]]) = 1

-----------------------------------------------------------------------------
(* The depth filter.                                                       *)

\* filter_by_read_depth(relative_depth_cutoff). Only the membership of the
\* components is used, so the order of the keys is of no consequence.
filter_by_read_depth(g, k, relative_depth_cutoff) ==
    LET whole_graph_cutoff ==
            RMul(get_median_read_depth(g, k, <<>>), relative_depth_cutoff)
        connected_components ==
            get_connected_components(g, SetToSeq(DOMAIN g.segments))
        component_cutoff(component) ==
            RMul(get_median_read_depth(g, k,
                     [i \in 1..Len(component) |-> g.segments[component[i]]]),
                 relative_depth_cutoff)
        removed(component) ==
            {num \in Range(component) :
                LET segment == g.segments[num]
                IN  /\ \/ RLess(segment.depth, whole_graph_cutoff)
                       \/ RLess(segment.depth, component_cutoff(component))
                    /\ \/ dead_end_count(g, segment) > 0
                       \/ all_segments_below_depth(g, component, whole_graph_cutoff)
                       \/ ~deleting_would_create_dead_end(g, segment)}
        segment_nums_to_remove ==
            UNION {removed(connected_components[i]) :
                      i \in 1..Len(connected_components)}
    IN  remove_segments(g, segment_nums_to_remove)

FilterByReadDepth(r) ==
    /\ pc = "idle"
    /\ pre' = Current
    /\ lastOp' = Op("filter_by_read_depth", r[1], r[2], {})
    /\ Becomes(filter_by_read_depth(Current, overlap, r))
    /\ UNCHANGED <<overlap, pc>>

-----------------------------------------------------------------------------
(* SpecFilter: the depth filter in graphs loaded from a file.              *)

FilterNums == 1..4
FilterDepths == {5, 100}
FilterCutoffs == {<<1, 10>>, <<2, 1>>}

\* The most link lines of a file.
MaxFilterLines == 2

FilterSegments(depth) ==
    [num \in FilterNums |-> Segment(num, R(depth[num]), <<"A","C","G","T","A">>)]

InitFilter ==
    /\ \E depth \in [FilterNums -> FilterDepths],
          lines \in LinkFiles(FilterNums, MaxFilterLines) :
          LET g == load_from_gfa(FilterSegments(depth), lines, EmptyMap)
          IN  /\ segments = g.segments
              /\ forward_links = g.forward_links
              /\ reverse_links = g.reverse_links
              /\ paths = g.paths
              /\ copy_depths = g.copy_depths
              /\ pre = g
    /\ overlap = 3
    /\ pc = "idle"
    /\ lastOp = NoOp

NextFilter == \E r \in FilterCutoffs : FilterByReadDepth(r)

SpecFilter == InitFilter /\ [][NextFilter]_vars

-----------------------------------------------------------------------------
(* Depth normalisation.                                                    *)

\* A faulty variant of divide_depth: the depth is multiplied.
multiply_depth(seg, divisor) == [seg EXCEPT !.depth = RMul(@, divisor)]

\* Segment.divide_depth
divide_depth(seg, divisor) == [seg EXCEPT !.depth = RDiv(@, divisor)]

\* normalise_read_depths, when the median is not 0 or there is no segment
normalise_read_depths(g, k) ==
    LET median_depth == get_median_read_depth(g, k, <<>>)
    IN  [g EXCEPT !.segments =
            [num \in DOMAIN g.segments |-> divide_depth(g.segments[num], median_depth)]]

\* The first divide_depth raises ZeroDivisionError when the median is 0.
NormaliseRaises(g, k) ==
    /\ DOMAIN g.segments # {}
    /\ get_median_read_depth(g, k, <<>>) = R(0)

NormaliseReadDepths ==
    /\ pc = "idle"
    /\ pre' = Current
    /\ lastOp' = Op("normalise_read_depths", 0, 0, {})
    /\ IF NormaliseRaises(Current, overlap)
       THEN /\ pc' = "raised"
            /\ UNCHANGED <<segments, forward_links, reverse_links,
                           copy_depths, paths>>
       ELSE /\ pc' = "idle"
            /\ Becomes(normalise_read_depths(Current, overlap))
    /\ UNCHANGED overlap

-----------------------------------------------------------------------------
(* SpecNormalise: depth normalisation in graphs of up to three segments.   *)

NormaliseNums == 1..3
NormaliseLens == {3, 4, 6}
NormaliseDepths == {0, 5, 20}

InitNormalise ==
    /\ \E nums \in SUBSET NormaliseNums :
          \E len \in [nums -> NormaliseLens], depth \in [nums -> NormaliseDepths] :
             LET g == load_from_gfa(
                          [num \in nums |->
                              Segment(num, R(depth[num]),
                                      [i \in 1..len[num] |-> "A"])],
                          <<>>, EmptyMap)
             IN  /\ segments = g.segments
                 /\ forward_links = g.forward_links
                 /\ reverse_links = g.reverse_links
                 /\ paths = g.paths
                 /\ copy_depths = g.copy_depths
                 /\ pre = g
    /\ overlap = 3
    /\ pc = "idle"
    /\ lastOp = NoOp

NextNormalise == NormaliseReadDepths

SpecNormalise == InitNormalise /\ [][NextNormalise]_vars

-----------------------------------------------------------------------------
(* The homopolymer filter.                                                 *)

NonEmpty(seg) == get_length(seg) > 0

\* A faulty variant of all_segments_are_one_base: the reverse strand is not
\* looked at.
all_segments_are_one_base_forward(segs) ==
    LET non_empty_segments == SelectSeq(segs, NonEmpty)
    IN  IF non_empty_segments = <<>> THEN FALSE
        ELSE LET base == Lower(non_empty_segments[1].forward_sequence[1])
             IN  \A i \in 1..Len(non_empty_segments) :
                    /\ is_homopolymer(non_empty_segments[i])
                    /\ Lower(non_empty_segments[i].forward_sequence[1]) = base

all_segments_are_one_base(segs) ==
    LET non_empty_segments == SelectSeq(segs, NonEmpty)
    IN  IF non_empty_segments = <<>> THEN FALSE
        ELSE LET base == Lower(non_empty_segments[1].forward_sequence[1])
             IN  \A i \in 1..Len(non_empty_segments) :
                    LET segment == non_empty_segments[i]
                    IN  /\ is_homopolymer(segment)
                        /\ \/ Lower(segment.forward_sequence[1]) = base
                           \/ Lower(segment.reverse_sequence[1]) = base

\* filter_homopolymer_loops, the keys of the segments dict being listed as
\* keys
filter_homopolymer_loops(g, keys) ==
    LET connected_components == get_connected_components(g, keys)
        segment_nums_to_remove ==
            UNION {Range(connected_components[i]) :
                      i \in {j \in 1..Len(connected_components) :
                                all_segments_are_one_base(
                                    [n \in 1..Len(connected_components[j]) |->
                                        g.segments[connected_components[j][n]]])}}
    IN  remove_segments(g, segment_nums_to_remove)

FilterHomopolymerLoops ==
    /\ pc = "idle"
    /\ pre' = Current
    /\ lastOp' = Op("filter_homopolymer_loops", 0, 0, {})
    /\ \E keys \in Orders(DOMAIN segments) :
          Becomes(filter_homopolymer_loops(Current, keys))
    /\ UNCHANGED <<overlap, pc>>

-----------------------------------------------------------------------------
(* SpecHomopolymer: the homopolymer filter in graphs loaded from a file.   *)

HomopolymerNums == 1..3

\* The sequences a segment may have: empty, one base in either case, its
\* complement, another base, and two bases.
HomopolymerSeqs ==
    { <<>>, <<"A","A">>, <<"a">>, <<"T">>, <<"C">>, <<"A","C">> }

\* The most link lines of a file.
MaxHomopolymerLines == 2

InitHomopolymer ==
    /\ \E seq \in [HomopolymerNums -> HomopolymerSeqs],
          lines \in LinkFiles(HomopolymerNums, MaxHomopolymerLines) :
          LET g == load_from_gfa([num \in HomopolymerNums |->
                                     Segment(num, R(1), seq[num])],
                                 lines, EmptyMap)
          IN  /\ segments = g.segments
              /\ forward_links = g.forward_links
              /\ reverse_links = g.reverse_links
              /\ paths = g.paths
              /\ copy_depths = g.copy_depths
              /\ pre = g
    /\ overlap = 1
    /\ pc = "idle"
    /\ lastOp = NoOp

NextHomopolymer == FilterHomopolymerLoops

SpecHomopolymer == InitHomopolymer /\ [][NextHomopolymer]_vars

-----------------------------------------------------------------------------
(* Copy depths: seeding and merging.                                       *)

\* float('inf'), which RLess and RLeq order above every depth
Inf == <<1, 0>>

\* sum of a list of depths
RECURSIVE RSum(_)
RSum(s) == IF s = <<>> THEN R(0) ELSE RAdd(Head(s), RSum(Tail(s)))

\* sorted(depths, reverse=True)
RECURSIVE SortedDescending(_)
SortedDescending(depths) ==
    IF depths = <<>> THEN <<>>
    ELSE LET rest == SortedDescending(Tail(depths))
             n == Cardinality({i \in 1..Len(rest) : RLess(Head(depths), rest[i])})
         IN  SubSeq(rest, 1, n) \o <<Head(depths)>> \o SubSeq(rest, n + 1, Len(rest))

\* get_error(source, target)
get_error(source, target) ==
    IF RLess(R(0), target)
    THEN RDiv(IF RLess(source, target) THEN RSub(target, source)
              ELSE RSub(source, target), target)
    ELSE Inf

\* The values of the segments dict, its keys being listed as keys.
ValuesInOrder(g, keys) == [i \in 1..Len(keys) |-> g.segments[keys[i]]]

HasCopies(g, seg) == seg.number \in DOMAIN g.copy_depths
HasNoCopies(g, seg) == seg.number \notin DOMAIN g.copy_depths

get_segments_without_copies(g, keys) ==
    SelectSeq(ValuesInOrder(g, keys), LAMBDA x : HasNoCopies(g, x))

get_segments_with_two_or_more_copies(g, keys) ==
    SelectSeq(ValuesInOrder(g, keys),
              LAMBDA x : HasCopies(g, x) /\ Len(g.copy_depths[x.number]) > 1)

\* sorted(segs, key=lambda x: x.get_length(), reverse=True): stable
RECURSIVE SortedByLength(_)
SortedByLength(segs) ==
    IF segs = <<>> THEN <<>>
    ELSE LET rest == SortedByLength(Tail(segs))
             n == Cardinality({i \in 1..Len(rest) :
                                  get_length(rest[i]) > get_length(Head(segs))})
         IN  SubSeq(rest, 1, n) \o <<Head(segs)>> \o SubSeq(rest, n + 1, Len(rest))

\* A faulty variant of at_most_one_link_per_end: the reverse links are not
\* looked at.
at_most_one_forward_link(g, segment) ==
    ~(segment.number \in DOMAIN g.forward_links
        /\ Len(g.forward_links[segment.number]) > 1)

at_most_one_link_per_end(g, segment) ==
    LET num == segment.number
    IN  /\ ~(num \in DOMAIN g.forward_links /\ Len(g.forward_links[num]) > 1)
        /\ ~(num \in DOMAIN g.reverse_links /\ Len(g.reverse_links[num]) > 1)

\* What a step of the propagator leaves: the graph, the number returned and
\* whether ZeroDivisionError was raised.
Returned(g, n) == [g |-> g, ret |-> n, raised |-> FALSE]
Raised(g) == [g |-> g, ret |-> 0, raised |-> TRUE]

\* assign_single_copy_depth(minimum_auto_single)
assign_single_copy_depth(g, minimum_auto_single, keys) ==
    LET segs == SortedByLength(get_segments_without_copies(g, keys))
        found == {i \in 1..Len(segs) :
                     /\ get_length(segs[i]) >= minimum_auto_single
                     /\ at_most_one_link_per_end(g, segs[i])}
    IN  IF found = {} THEN Returned(g, 0)
        ELSE LET segment == segs[CHOOSE i \in found : \A j \in found : i <= j]
             IN  Returned([g EXCEPT !.copy_depths =
                              Put(g.copy_depths, segment.number, <<segment.depth>>)],
                          1)

get_copy_number_colour(g, segment) ==
    IF segment.number \notin DOMAIN g.copy_depths THEN "black"
    ELSE LET copy_number == Len(g.copy_depths[segment.number])
         IN  IF copy_number = 1 THEN "forestgreen"
             ELSE IF copy_number = 2 THEN "gold"
             ELSE IF copy_number = 3 THEN "darkorange"
             ELSE "red"

lead_exclusively_to(g, segment_num_1, segment_num_2) ==
    /\ segment_num_1 \in DOMAIN g.forward_links
    /\ g.forward_links[segment_num_1] = <<segment_num_2>>

lead_exclusively_from(g, segment_num_1, segment_num_2) ==
    /\ segment_num_1 \in DOMAIN g.reverse_links
    /\ g.reverse_links[segment_num_1] = <<segment_num_2>>

\* [abs(x) for x in lst]
AbsAll(lst) == [i \in 1..Len(lst) |-> Abs(lst[i])]

get_exclusive_inputs(g, segment_number) ==
    IF segment_number \notin DOMAIN g.reverse_links THEN <<>>
    ELSE AbsAll(SelectSeq(g.reverse_links[segment_number],
                          LAMBDA x : lead_exclusively_to(g, x, segment_number)))

get_exclusive_outputs(g, segment_number) ==
    IF segment_number \notin DOMAIN g.forward_links THEN <<>>
    ELSE AbsAll(SelectSeq(g.forward_links[segment_number],
                          LAMBDA x : lead_exclusively_from(g, x, segment_number)))

all_have_copy_depths(g, segment_numbers) ==
    \A i \in 1..Len(segment_numbers) : segment_numbers[i] \in DOMAIN g.copy_depths

\* A faulty variant of scale_copy_depths: the depths are sorted but not
\* scaled.
sort_copy_depths(target_depth, source_depths) ==
    [depths |-> SortedDescending(source_depths),
     error |-> get_error(RSum(source_depths), target_depth)]

\* scale_copy_depths(target_depth, source_depths) when the source depths do
\* not sum to 0: the scaled depths and the error
scale_copy_depths(target_depth, source_depths) ==
    LET source_depth_sum == RSum(source_depths)
        scaling_factor == RDiv(target_depth, source_depth_sum)
    IN  [depths |-> SortedDescending([i \in 1..Len(source_depths) |->
                                         RMul(scaling_factor, source_depths[i])]),
         error |-> get_error(source_depth_sum, target_depth)]

\* "target_depth / source_depth_sum" raises ZeroDivisionError
ScaleRaises(source_depths) == RSum(source_depths) = R(0)

\* the source depths of scale_copy_depths_from_source_segments
SourceDepths(g, source_segment_numbers) ==
    Concat([i \in 1..Len(source_segment_numbers) |->
               g.copy_depths[source_segment_numbers[i]]])

scale_copy_depths_from_source_segments(g, segment_number, source_segment_numbers) ==
    scale_copy_depths(g.segments[segment_number].depth,
                      SourceDepths(g, source_segment_numbers))

\* The best candidate of merge_copy_depths so far; best_segment_num 0 is None.
NoCandidate == [lowest_error |-> Inf, best_segment_num |-> 0, best_new_depths |-> <<>>]

\* "if error < lowest_error": the candidate replaces the best one
Better(best, num, scaled) ==
    IF RLess(scaled.error, best.lowest_error)
    THEN [lowest_error |-> scaled.error, best_segment_num |-> num,
          best_new_depths |-> scaled.depths]
    ELSE best

\* The loop of merge_copy_depths over the segments without copy depths: the
\* best candidate, or "raised" when a division by a sum of 0 stopped it.
RECURSIVE MergeScan(_, _, _)
MergeScan(g, segs, best) ==
    IF segs = <<>> THEN [best |-> best, raised |-> FALSE]
    ELSE LET num == Head(segs).number
             exclusive_inputs == get_exclusive_inputs(g, num)
             exclusive_outputs == get_exclusive_outputs(g, num)
             in_depth_possible == exclusive_inputs # <<>>
                                    /\ all_have_copy_depths(g, exclusive_inputs)
             out_depth_possible == exclusive_outputs # <<>>
                                     /\ all_have_copy_depths(g, exclusive_outputs)
             after_in == IF in_depth_possible
                         THEN Better(best, num,
                                     scale_copy_depths_from_source_segments(
                                         g, num, exclusive_inputs))
                         ELSE best
             after_out == IF out_depth_possible
                          THEN Better(after_in, num,
                                      scale_copy_depths_from_source_segments(
                                          g, num, exclusive_outputs))
                          ELSE after_in
         IN  IF in_depth_possible /\ ScaleRaises(SourceDepths(g, exclusive_inputs))
             THEN [best |-> best, raised |-> TRUE]
             ELSE IF out_depth_possible
                       /\ ScaleRaises(SourceDepths(g, exclusive_outputs))
             THEN [best |-> after_in, raised |-> TRUE]
             ELSE MergeScan(g, Tail(segs), after_out)

\* A faulty variant of MergeAccepts: the error margin is not looked at.
MergeAcceptsAnyError(best) == best.best_segment_num # 0

\* "if best_segment_num and lowest_error < error_margin"
MergeAccepts(best) ==
    best.best_segment_num # 0 /\ RLess(best.lowest_error, R(1))

merge_copy_depths(g, keys) ==
    LET segs == get_segments_without_copies(g, keys)
        scan == MergeScan(g, segs, NoCandidate)
    IN  IF segs = <<>> THEN Returned(g, 0)
        ELSE IF scan.raised THEN Raised(g)
        ELSE IF MergeAccepts(scan.best)
        THEN Returned([g EXCEPT !.copy_depths =
                          Put(g.copy_depths, scan.best.best_segment_num,
                              scan.best.best_new_depths)], 1)
        ELSE Returned(g, 0)

-----------------------------------------------------------------------------
(* Copy depths: redistribution.                                            *)

\* bins with the item appended to bin i
AppendToBin(bins, i, item) == [bins EXCEPT ![i] = Append(@, item)]

\* A faulty variant of BinsAccepted: the targets are not looked at.
BinsNonEmpty(bins, targets) == \A i \in 1..Len(bins) : bins[i] # <<>>

\* The test of shuffle_into_bins on a finished arrangement; target 0 is None.
BinsAccepted(bins, targets) ==
    /\ \A i \in 1..Len(bins) : bins[i] # <<>>
    /\ \A i \in 1..Len(targets) : targets[i] = 0 \/ targets[i] = Len(bins[i])

\* shuffle_into_bins(items, bins, targets): the arrangements, in the order
\* in which they are appended
RECURSIVE shuffle_into_bins(_, _, _)
shuffle_into_bins(items, bins, targets) ==
    IF items # <<>>
    THEN Concat([i \in 1..Len(bins) |->
                    shuffle_into_bins(Tail(items), AppendToBin(bins, i, Head(items)),
                                      targets)])
    ELSE IF BinsAccepted(bins, targets) THEN <<bins>> ELSE <<>>

\* A faulty variant of RMax: the smaller of the two.
RMin(x, y) == IF RLess(x, y) THEN x ELSE y

\* max(x, y)
RMax(x, y) == IF RLess(x, y) THEN y ELSE x

RECURSIVE MaxErrorFrom(_, _, _, _)
MaxErrorFrom(g, segment_numbers, copy_depths_, max_error) ==
    IF segment_numbers = <<>> THEN max_error
    ELSE MaxErrorFrom(g, Tail(segment_numbers), Tail(copy_depths_),
                      RMax(max_error,
                           get_error(RSum(Head(copy_depths_)),
                                     g.segments[Head(segment_numbers)].depth)))

get_error_for_multiple_segments_and_depths(g, segment_numbers, copy_depths_) ==
    MaxErrorFrom(g, segment_numbers, copy_depths_, R(0))

\* assign_copy_depths_where_needed(segment_numbers, new_depths), from
\* position i on
RECURSIVE AssignFrom(_, _, _, _, _)
AssignFrom(g, segment_numbers, new_depths, i, success) ==
    IF i > Len(segment_numbers) THEN [g |-> g, success |-> success, raised |-> FALSE]
    ELSE LET num == segment_numbers[i]
             scaled == scale_copy_depths(g.segments[num].depth, new_depths[i])
         IN  IF num \in DOMAIN g.copy_depths
             THEN AssignFrom(g, segment_numbers, new_depths, i + 1, success)
             ELSE IF ScaleRaises(new_depths[i])
             THEN [g |-> g, success |-> success, raised |-> TRUE]
             ELSE IF RLeq(scaled.error, R(1))
             THEN AssignFrom([g EXCEPT !.copy_depths =
                                 Put(g.copy_depths, num, scaled.depths)],
                             segment_numbers, new_depths, i + 1, TRUE)
             ELSE AssignFrom(g, segment_numbers, new_depths, i + 1, success)

assign_copy_depths_where_needed(g, segment_numbers, new_depths) ==
    AssignFrom(g, segment_numbers, new_depths, 1, FALSE)

\* The connections that redistribute_copy_depths works on for num; <<>> when
\* it goes on to the next segment.
Connections(g, num) ==
    LET inputs == get_exclusive_inputs(g, num)
        connections == IF inputs = <<>> \/ all_have_copy_depths(g, inputs)
                       THEN get_exclusive_outputs(g, num)
                       ELSE inputs
    IN  IF connections = <<>> \/ all_have_copy_depths(g, connections)
        THEN <<>>
        ELSE connections

Targets(g, connections) ==
    [i \in 1..Len(connections) |->
        IF connections[i] \notin DOMAIN g.copy_depths THEN 0
        ELSE Len(g.copy_depths[connections[i]])]

Arrangements(g, num) ==
    LET connections == Connections(g, num)
    IN  shuffle_into_bins(g.copy_depths[num],
                          [i \in 1..Len(connections) |-> <<>>],
                          Targets(g, connections))

\* the first arrangement of the lowest error, and that error
RECURSIVE BestArrangement(_, _, _, _)
BestArrangement(g, connections, arrangements, best) ==
    IF arrangements = <<>> THEN best
    ELSE LET error == get_error_for_multiple_segments_and_depths(
                          g, connections, Head(arrangements))
         IN  BestArrangement(g, connections, Tail(arrangements),
                             IF RLess(error, best.lowest_error)
                             THEN [lowest_error |-> error,
                                   best_arrangement |-> Head(arrangements)]
                             ELSE best)

\* The loop of redistribute_copy_depths over the segments with two or more
\* copies.
RECURSIVE RedistributeScan(_, _)
RedistributeScan(g, segs) ==
    IF segs = <<>> THEN Returned(g, 0)
    ELSE LET num == Head(segs).number
             connections == Connections(g, num)
             arrangements == Arrangements(g, num)
             best == BestArrangement(g, connections, arrangements,
                                     [lowest_error |-> Inf, best_arrangement |-> <<>>])
             assigned == assign_copy_depths_where_needed(g, connections,
                                                         best.best_arrangement)
         IN  IF connections = <<>> \/ arrangements = <<>>
                  \/ ~RLess(best.lowest_error, R(1))
             THEN RedistributeScan(g, Tail(segs))
             ELSE IF assigned.raised THEN Raised(assigned.g)
             ELSE IF assigned.success THEN Returned(assigned.g, 1)
             ELSE RedistributeScan(assigned.g, Tail(segs))

redistribute_copy_depths(g, keys) ==
    RedistributeScan(g, get_segments_with_two_or_more_copies(g, keys))

-----------------------------------------------------------------------------
(* SpecCopy: the copy-depth propagator on graphs loaded from a file.       *)

AssignSingleCopyDepth(minimum_auto_single) ==
    /\ pc = "idle"
    /\ pre' = Current
    /\ \E keys \in Orders(DOMAIN segments) :
          LET r == assign_single_copy_depth(Current, minimum_auto_single, keys)
          IN  /\ lastOp' = Op("assign_single_copy_depth", minimum_auto_single,
                              r.ret, {})
              /\ Becomes(r.g)
    /\ pc' = "idle"
    /\ UNCHANGED overlap

MergeCopyDepths ==
    /\ pc = "idle"
    /\ pre' = Current
    /\ \E keys \in Orders(DOMAIN segments) :
          LET r == merge_copy_depths(Current, keys)
          IN  /\ lastOp' = Op("merge_copy_depths", 0, r.ret, {})
              /\ pc' = IF r.raised THEN "raised" ELSE "idle"
              /\ Becomes(r.g)
    /\ UNCHANGED overlap

RedistributeCopyDepths ==
    /\ pc = "idle"
    /\ pre' = Current
    /\ \E keys \in Orders(DOMAIN segments) :
          LET r == redistribute_copy_depths(Current, keys)
          IN  /\ lastOp' = Op("redistribute_copy_depths", 0, r.ret, {})
              /\ pc' = IF r.raised THEN "raised" ELSE "idle"
              /\ Becomes(r.g)
    /\ UNCHANGED overlap

\* An order of the segments dict as the set of its (position, key), and back.
KeysAsSet(keys) == {<<i, keys[i]>> : i \in 1..Len(keys)}
KeysOf(S) == [i \in 1..Cardinality(S) |-> CHOOSE num \in {p[2] : p \in S} : <<i, num>> \in S]

\* determine_copy_depth(minimum_auto_single) is entered: pc is the call that
\* comes next, lastOp.a the argument, lastOp.b "assignments" and lastOp.S
\* the order of the segments dict, which the call does not change and which
\* is dropped at the return.
DetermineCopyDepth(minimum_auto_single) ==
    /\ pc = "idle"
    /\ pre' = Current
    /\ \E keys \in Orders(DOMAIN segments) :
          lastOp' = Op("determine_copy_depth", minimum_auto_single, 0,
                       KeysAsSet(keys))
    /\ pc' = "assign"
    /\ UNCHANGED <<segments, forward_links, reverse_links, copy_depths, paths,
                   overlap>>

\* "assignments = self.assign_single_copy_depth(minimum_auto_single)"
DetermineAssign ==
    /\ pc = "assign"
    /\ LET r == assign_single_copy_depth(Current, lastOp.a, KeysOf(lastOp.S))
       IN  /\ lastOp' = [lastOp EXCEPT !.b = r.ret]
           /\ Becomes(r.g)
    /\ pc' = "merge"
    /\ UNCHANGED <<overlap, pre>>

\* one turn of "while self.merge_copy_depths(): pass"
DetermineMerge ==
    /\ pc = "merge"
    /\ LET r == merge_copy_depths(Current, KeysOf(lastOp.S))
       IN  /\ pc' = IF r.raised THEN "raised"
                    ELSE IF r.ret # 0 THEN "merge" ELSE "redistribute"
           /\ Becomes(r.g)
    /\ UNCHANGED <<overlap, pre, lastOp>>

\* "if self.redistribute_copy_depths(): self.determine_copy_depth_part_2()",
\* then simple_loop_copy_depths, which returns 0, and "if not assignments:
\* break"
DetermineRedistribute ==
    /\ pc = "redistribute"
    /\ LET r == redistribute_copy_depths(Current, KeysOf(lastOp.S))
       IN  /\ pc' = IF r.raised THEN "raised"
                    ELSE IF r.ret # 0 THEN "merge"
                    ELSE IF lastOp.b = 0 THEN "idle" ELSE "assign"
           /\ lastOp' = IF ~r.raised /\ r.ret = 0 /\ lastOp.b = 0
                        THEN [lastOp EXCEPT !.S = {}] ELSE lastOp
           /\ Becomes(r.g)
    /\ UNCHANGED <<overlap, pre>>

DetermineStep == DetermineAssign \/ DetermineMerge \/ DetermineRedistribute

\* The most link lines of a file of the three-segment graphs.
MaxCopyLines == 2

CopyNums == 1..3

CopyLens == {<<5, 5, 3>>, <<5, 3, 3>>}

CopyDepths == {<<R(10), R(20), R(30)>>, <<R(0), R(20), R(5)>>,
               <<R(5), R(0), R(20)>>, <<<<187, 5>>, R(10), R(10)>>}

\* The graph of the redistribution example: 1 and 2 lead to 3, which leads
\* to 4 and 5.
ExampleLines == <<<<1, 3>>, <<2, 3>>, <<3, 4>>, <<3, 5>>>>

ExampleLens == {<<5, 5, 3, 3, 3>>}

\* A three-segment graph with a branch: 1 and 2 lead to 3, and 2 leads to 1
\* as well.
BranchLines == <<<<1, 3>>, <<2, 3>>, <<2, 1>>>>

ExampleCopyDepths == {<<R(10), R(20), R(30), R(20), R(10)>>,
                      <<R(10), R(20), R(30), R(5), R(40)>>}

\* the threshold minimum_auto_single
CopyMinimums == {1, 4}

CopySegments(lens, depths) ==
    [num \in 1..Len(lens) |->
        Segment(num, depths[num], [i \in 1..lens[num] |-> "A"])]

CopyGraphs ==
    {load_from_gfa(CopySegments(lens, depths), lines, EmptyMap) :
        lens \in CopyLens, depths \in CopyDepths,
        lines \in LinkFiles(CopyNums, MaxCopyLines)}
    \cup
    {load_from_gfa(CopySegments(lens, depths), LinesToSeq(lines), EmptyMap) :
        lens \in ExampleLens, depths \in ExampleCopyDepths,
        lines \in SubsetsUpTo(ExampleLines, 1, Len(ExampleLines))}
    \cup
    {load_from_gfa(CopySegments(lens, depths), BranchLines, EmptyMap) :
        lens \in CopyLens, depths \in CopyDepths}

InitCopy ==
    /\ \E g \in CopyGraphs :
          /\ segments = g.segments
          /\ forward_links = g.forward_links
          /\ reverse_links = g.reverse_links
          /\ paths = g.paths
          /\ copy_depths = g.copy_depths
          /\ pre = g
    /\ overlap = 3
    /\ pc = "idle"
    /\ lastOp = NoOp

NextCopy ==
    \/ \E minimum_auto_single \in CopyMinimums :
          AssignSingleCopyDepth(minimum_auto_single)
    \/ MergeCopyDepths
    \/ RedistributeCopyDepths

SpecCopy == InitCopy /\ [][NextCopy]_vars

-----------------------------------------------------------------------------
(* SpecDetermine: determine_copy_depth, one call of it after the other, on *)
(* the same graphs.                                                         *)

NextDetermine ==
    \/ \E minimum_auto_single \in CopyMinimums :
          DetermineCopyDepth(minimum_auto_single)
    \/ DetermineAssign
    \/ DetermineMerge
    \/ DetermineRedistribute

SpecDetermine == InitCopy /\ [][NextDetermine]_vars

\* A call that was entered goes on until it returns or raises: weak fairness
\* of DetermineStep, WF_vars(DetermineStep), written out.  A step of
\* DetermineStep is possible exactly in the states of a call under way
\* (pc is "assign", "merge" or "redistribute"), it changes pc or the copy
\* depths, and no other step is possible in these states.
DetermineGoesOn ==
    \/ []<>(pc \notin {"assign", "merge", "redistribute"})
    \/ []<><<pc \in {"assign", "merge", "redistribute"}>>_vars

SpecDetermineFair == SpecDetermine /\ DetermineGoesOn

-----------------------------------------------------------------------------
(* SpecSequence: a segment made from a sequence of either strand, and its  *)
(* other strand built.                                                     *)

\* The longest sequence of a segment.
MaxSeqLen == 2

\* the sequences of at most n characters of the complement table
Sequences(n) == UNION {[1..k -> Range(ComplementFrom)] : k \in 0..n}

\* Segment(number, depth, sequence, positive), before the other strand is
\* built
NewSegment(number, depth, sequence, positive) ==
    [number |-> number, depth |-> depth,
     forward_sequence |-> IF positive THEN sequence ELSE <<>>,
     reverse_sequence |-> IF positive THEN <<>> ELSE sequence]

build_other_sequence_if_necessary(seg) ==
    LET built == IF seg.forward_sequence = <<>>
                 THEN [seg EXCEPT !.forward_sequence =
                                     reverse_complement(seg.reverse_sequence)]
                 ELSE seg
    IN  IF built.reverse_sequence = <<>>
        THEN [built EXCEPT !.reverse_sequence =
                              reverse_complement(built.forward_sequence)]
        ELSE built

\* build_other_sequence_if_necessary() on segment num
BuildOtherSequenceIfNecessary(num) ==
    /\ pc = "idle"
    /\ num \in DOMAIN segments
    /\ pre' = Current
    /\ lastOp' = Op("build_other_sequence_if_necessary", num, 0, {})
    /\ segments' = [segments EXCEPT ![num] = build_other_sequence_if_necessary(@)]
    /\ UNCHANGED <<forward_links, reverse_links, copy_depths, paths, overlap, pc>>

InitSequence ==
    /\ \E sequence \in Sequences(MaxSeqLen), positive \in BOOLEAN :
          segments = [num \in {1} |-> NewSegment(num, R(1), sequence, positive)]
    /\ forward_links = EmptyMap
    /\ reverse_links = EmptyMap
    /\ copy_depths = EmptyMap
    /\ paths = EmptyMap
    /\ pre = Graph(segments, EmptyMap, EmptyMap, EmptyMap, EmptyMap)
    /\ overlap = 0
    /\ pc = "idle"
    /\ lastOp = NoOp

NextSequence == \E num \in DOMAIN segments : BuildOtherSequenceIfNecessary(num)

SpecSequence == InitSequence /\ [][NextSequence]_vars

-----------------------------------------------------------------------------
(* SpecOwnership: copy depths in a graph that is then filtered, merged and *)
(* cut down.                                                               *)

\* The most link lines of a file.
MaxOwnershipLines == 1

InitOwnership ==
    /\ \E lines \in LinkFiles(MergeNums, MaxOwnershipLines) :
          LET g == load_from_gfa(MergeSegments(RepairLens), lines, EmptyMap)
          IN  /\ segments = g.segments
              /\ forward_links = g.forward_links
              /\ reverse_links = g.reverse_links
              /\ paths = g.paths
              /\ copy_depths = g.copy_depths
              /\ pre = g
    /\ overlap = 3
    /\ pc = "idle"
    /\ lastOp = NoOp

NextOwnership ==
    \/ \E minimum_auto_single \in CopyMinimums :
          AssignSingleCopyDepth(minimum_auto_single)
    \/ \E num \in DOMAIN segments : RemoveSegments({num})
    \/ \E seg_num_1 \in Signed(DOMAIN segments), seg_num_2 \in Signed(DOMAIN segments) :
          TryToMergeTwoSegments(seg_num_1, seg_num_2)
    \/ \E r \in FilterCutoffs : FilterByReadDepth(r)

SpecOwnership == InitOwnership /\ [][NextOwnership]_vars

-----------------------------------------------------------------------------
(* SpecRing: the depth filter in graphs without dead ends.                 *)

RingNums == 1..3

\* The link lines of a ring: 1 and 2 lead to 3, and 3 leads back to both.
RingLines == <<<<1, 3>>, <<2, 3>>, <<3, 1>>, <<3, 2>>>>

RingSegments(depth) ==
    [num \in RingNums |-> Segment(num, R(depth[num]), <<"A","C","G","T","A">>)]

InitRing ==
    /\ \E depth \in [RingNums -> FilterDepths],
          lines \in SubsetsUpTo(RingLines, 1, Len(RingLines)) :
          LET g == load_from_gfa(RingSegments(depth), LinesToSeq(lines), EmptyMap)
          IN  /\ segments = g.segments
              /\ forward_links = g.forward_links
              /\ reverse_links = g.reverse_links
              /\ paths = g.paths
              /\ copy_depths = g.copy_depths
              /\ pre = g
    /\ overlap = 3
    /\ pc = "idle"
    /\ lastOp = NoOp

SpecRing == InitRing /\ [][NextFilter]_vars

-----------------------------------------------------------------------------
(* Properties of the link store.                                           *)

HasLink(links, u, v) == u \in DOMAIN links /\ v \in Range(links[u])

\* every link (u -> v) has its reverse-complement twin (-v -> -u)
TwinSymmetric(fl) ==
    \A u \in DOMAIN fl : \A v \in Range(fl[u]) : HasLink(fl, -v, -u)

\* v is in forward[u] if and only if u is in reverse[v]
TransposeAgree(fl, rl) ==
    /\ \A u \in DOMAIN fl : \A v \in Range(fl[u]) : HasLink(rl, v, u)
    /\ \A v \in DOMAIN rl : \A u \in Range(rl[v]) : HasLink(fl, u, v)

\* every number in the link store is that of a segment
EndpointsExist(g) ==
    /\ \A u \in DOMAIN g.forward_links :
          Abs(u) \in DOMAIN g.segments
            /\ \A v \in Range(g.forward_links[u]) : Abs(v) \in DOMAIN g.segments
    /\ \A u \in DOMAIN g.reverse_links :
          Abs(u) \in DOMAIN g.segments
            /\ \A v \in Range(g.reverse_links[u]) : Abs(v) \in DOMAIN g.segments

\* C1: after any sequence of add_link and remove_segments calls from the
\* empty store, every link has its twin in forward_links and the reverse view
\* is the transpose of the forward view; and add_link(5, -7) on the empty
\* store gives forward = {5:[-7], 7:[-5]} and reverse = {-7:[5], -5:[7]}.
C1_TwinAndTranspose ==
    /\ TwinSymmetric(forward_links)
    /\ TransposeAgree(forward_links, reverse_links)
    /\ (/\ lastOp = Op("add_link", 5, -7, {})
        /\ pre.forward_links = EmptyMap
        /\ pre.reverse_links = EmptyMap)
       => /\ forward_links = (5 :> <<-7>>) @@ (7 :> <<-5>>)
          /\ reverse_links = (-7 :> <<5>>) @@ (-5 :> <<7>>)

\* add_link(5, -7) has just been called on the empty store
C1_Witness ==
    /\ lastOp = Op("add_link", 5, -7, {})
    /\ pre.forward_links = EmptyMap
    /\ forward_links # EmptyMap

\* C2: add_link is idempotent: from every reachable store, for every u and v
\* (u = v and u = -v included) a second add_link(u, v) leaves both dicts as
\* the first call left them; and a call that repeats a link the store
\* already holds changes nothing.
C2_AddLinkIdempotent ==
    /\ \A u \in StoreSigned, v \in StoreSigned :
          LET once == add_link(forward_links, reverse_links, u, v)
          IN  add_link(once.forward_links, once.reverse_links, u, v) = once
    /\ (lastOp.op = "add_link" /\ HasLink(pre.forward_links, lastOp.a, lastOp.b))
       => /\ forward_links = pre.forward_links
          /\ reverse_links = pre.reverse_links

\* the palindromic link (u -> -u) has been added a second time
C2_Witness ==
    /\ lastOp.op = "add_link"
    /\ lastOp.a = -lastOp.b
    /\ HasLink(pre.forward_links, lastOp.a, lastOp.b)
    /\ \E u \in DOMAIN forward_links : Len(forward_links[u]) >= 2

\* The ordered links of a dict, as a set of pairs.
LinkSet(links) ==
    UNION {{<<u, v>> : v \in Range(links[u])} : u \in DOMAIN links}

\* What remove_segments(S) leaves of one link dict, given what it held.
RemovedFrom(before, after, S) ==
    /\ \A u \in DOMAIN after :
          /\ Abs(u) \notin S
          /\ after[u] # <<>>
          /\ \A v \in Range(after[u]) : Abs(v) \notin S
    /\ LinkSet(after) =
          {l \in LinkSet(before) : Abs(l[1]) \notin S /\ Abs(l[2]) \notin S}

\* C3: after remove_segments(S) no segment with an ID in S exists, no key and
\* no value of forward_links or reverse_links has an absolute value in S, no
\* adjacency list is empty, and the links are exactly the links that existed
\* before with both ends outside S.
C3_RemoveSegmentsFrame ==
    lastOp.op = "remove_segments" =>
        /\ DOMAIN segments \cap lastOp.S = {}
        /\ RemovedFrom(pre.forward_links, forward_links, lastOp.S)
        /\ RemovedFrom(pre.reverse_links, reverse_links, lastOp.S)

\* a removal that deleted some links and kept others
C3_Witness ==
    /\ lastOp.op = "remove_segments"
    /\ lastOp.S # {}
    /\ forward_links # EmptyMap
    /\ LinkSet(forward_links) # LinkSet(pre.forward_links)
    /\ \E u \in DOMAIN pre.forward_links :
          /\ Abs(u) \notin lastOp.S
          /\ \E v \in Range(pre.forward_links[u]) : Abs(v) \in lastOp.S

\* no number twice in a list
DuplicateFree(lst) == Cardinality(Range(lst)) = Len(lst)

\* C18: in every state, that of a graph just loaded from a file included,
\* no list of forward_links or reverse_links has a number twice.
C18_NoDuplicateLinks ==
    /\ \A u \in DOMAIN forward_links : DuplicateFree(forward_links[u])
    /\ \A v \in DOMAIN reverse_links : DuplicateFree(reverse_links[v])

\* C19: in a twin-symmetric link store, of a link and its twin exactly one
\* is positive (the link itself when it is its own twin), and
\* get_all_gfa_link_lines writes exactly one line for the pair.
C19_OneLinePerTwinPair ==
    TwinSymmetric(forward_links) =>
        \A l \in LinkSet(forward_links) :
            LET u == l[1]
                v == l[2]
                written == get_all_gfa_link_lines(Current)
            IN  /\ (u = -v) => is_link_positive(u, v)
                /\ (u # -v) => (is_link_positive(u, v) <=> ~is_link_positive(-v, -u))
                /\ Cardinality({i \in 1..Len(written) :
                                   written[i] \in {<<u, v>>, <<-v, -u>>}}) = 1

-----------------------------------------------------------------------------
(* Properties of merging.                                                  *)

\* get_total_length_no_overlaps
get_total_length_no_overlaps(segs, k) ==
    SumSeq([i \in 1..Len(SetToSeq(DOMAIN segs)) |->
               get_length_no_overlap(segs[SetToSeq(DOMAIN segs)[i]], k)])

\* C5: a merge that passed the tests of try_to_merge_two_segments leaves one
\* segment fewer and the same sum of overlap-compensated lengths.
C5_MergeCountAndLength ==
    (lastOp.op = "try_to_merge_two_segments" /\ pc = "idle") =>
        /\ Cardinality(DOMAIN segments) = Cardinality(DOMAIN pre.segments) - 1
        /\ get_total_length_no_overlaps(segments, overlap) =
           get_total_length_no_overlaps(pre.segments, overlap)

\* The links of the chain c[1] -> c[2] -> ... with their twins.
ChainLinks(c) ==
    {<<c[i], c[i + 1]>> : i \in 1..(Len(c) - 1)} \cup
    {<<-c[i + 1], -c[i]>> : i \in 1..(Len(c) - 1)}

\* The graph is one chain through all its segments, each on either strand,
\* each linked only to the next.
IsChain(g) ==
    \E c \in [1..Cardinality(DOMAIN g.segments) -> Signed(DOMAIN g.segments)] :
        /\ Len(c) >= 2
        /\ \A i, j \in 1..Len(c) : i # j => Abs(c[i]) # Abs(c[j])
        /\ LinkSet(g.forward_links) = ChainLinks(c)

\* The sum over the segments of depth * (length - k), as a rational.
RECURSIVE WeightedDepthSum(_, _, _)
WeightedDepthSum(segs, nums, k) ==
    IF nums = <<>> THEN R(0)
    ELSE RAdd(RMul(segs[Head(nums)].depth,
                   R(get_length_no_overlap(segs[Head(nums)], k))),
              WeightedDepthSum(segs, Tail(nums), k))

\* C6: on a chain, merge_all_possible returns with exactly one segment, no
\* link, and the mean of the original depths weighted by overlap-compensated
\* length as its depth, in whatever order the pairs were merged.
C6_ChainMerge ==
    (lastOp.op = "merge_all_possible" /\ IsChain(pre)) =>
        /\ pc = "idle"
        /\ Cardinality(DOMAIN segments) = 1
        /\ forward_links = EmptyMap
        /\ reverse_links = EmptyMap
        /\ \A num \in DOMAIN segments :
              RMul(segments[num].depth,
                   R(get_total_length_no_overlaps(pre.segments, overlap))) =
              WeightedDepthSum(pre.segments, SetToSeq(DOMAIN pre.segments), overlap)

\* The linear-merge example: 1 = AAAAA, 2 = AAATT, 3 = TTGGG, 1 -> 2 -> 3.
ExampleGraph ==
    load_from_gfa(MergeSegments([num \in MergeNums |-> 5]),
                  <<  <<1, 2>>, <<2, 3>>  >>, EmptyMap)

AfterExampleMerge ==
    /\ lastOp.op = "merge_all_possible"
    /\ pre = ExampleGraph
    /\ overlap = 3
    /\ pc = "idle"

\* C7 as stated: the segment left by merge_all_possible in the example has
\* the forward sequence AAAAATTGGG.
C7_ExampleSequenceAsStated ==
    AfterExampleMerge =>
        \A num \in DOMAIN segments :
            segments[num].forward_sequence =
                <<"A","A","A","A","A","T","T","G","G","G">>

\* What the example's merge can leave, by the order in which the segments
\* are visited and the strand on which each pair is merged.
ExampleMergedSequences ==
    { <<"A","A","A","A","T","T","G","G","G">>,
      <<"A","A","A","A","A","T","T","G","G">>,
      <<"C","C","A","A","T","T","T","T","T">>,
      <<"C","C","C","A","T","T","T","T","T">>  }

\* C7 (amended): in the example merge_all_possible leaves one segment of
\* 5 + 5 + 5 - 2k = 9 bases, each merge giving seq(u) without its last k
\* bases followed by seq(v) on the strands merged: AAAATTGGG when both merges
\* are made on the forward strand, else AAAAATTGG, CCAATTTTT or CCCATTTTT.
C7_ExampleSequence ==
    AfterExampleMerge =>
        /\ Cardinality(DOMAIN segments) = 1
        /\ \A num \in DOMAIN segments :
              /\ segments[num].forward_sequence \in ExampleMergedSequences
              /\ segments[num].reverse_sequence =
                 reverse_complement(segments[num].forward_sequence)

\* the example merged on the forward strand
C7_Witness ==
    /\ AfterExampleMerge
    /\ \E num \in DOMAIN segments :
          segments[num].forward_sequence = <<"A","A","A","A","T","T","G","G","G">>

\* try_to_merge_two_segments(u, v) has merged u and v.
AfterMergeOfTwo == lastOp.op = "try_to_merge_two_segments" /\ pc = "idle"

\* The numbers of the segments that the merge has put into the graph.
MergedIds ==
    DOMAIN segments \ (DOMAIN pre.segments \ {Abs(lastOp.a), Abs(lastOp.b)})

\* C24: the segment made of u and v has the number of whichever of u and v
\* has the greater overlap-compensated length, and the number after the
\* greatest one of the graph when neither is greater.
C24_MergedSegmentId ==
    AfterMergeOfTwo =>
        LET len_u == get_length_no_overlap(pre.segments[Abs(lastOp.a)], overlap)
            len_v == get_length_no_overlap(pre.segments[Abs(lastOp.b)], overlap)
        IN  MergedIds = {IF len_v > len_u THEN Abs(lastOp.b)
                         ELSE IF len_u > len_v THEN Abs(lastOp.a)
                         ELSE Max(DOMAIN pre.segments) + 1}

\* The link invariants: twins, transpose agreement, and every number in
\* the store that of a segment.
LinkInvariants(g) ==
    /\ TwinSymmetric(g.forward_links)
    /\ TransposeAgree(g.forward_links, g.reverse_links)
    /\ EndpointsExist(g)

\* u leads to v only and v comes from u only, u and v being different
MergeablePair(g, u, v) ==
    /\ u # v
    /\ u \in DOMAIN g.forward_links
    /\ v \in DOMAIN g.reverse_links
    /\ g.forward_links[u] = <<v>>
    /\ g.reverse_links[v] = <<u>>

\* C25: on a graph that satisfies the link invariants merge_all_possible
\* returns, without an error, and leaves no pair of signed numbers u # v
\* with forward[u] = [v] and reverse[v] = [u].
C25_MergeAllReturns ==
    (lastOp.op = "merge_all_possible" /\ LinkInvariants(pre)) =>
        /\ pc = "idle"
        /\ \A u \in DOMAIN forward_links, v \in DOMAIN reverse_links :
              ~MergeablePair(Current, u, v)

\* C27: after merge_two_segments or merge_all_possible on a graph whose
\* link endpoints are all segments, every number that is a key or a value of
\* forward_links or reverse_links is still that of a segment.
C27_MergeKeepsEndpoints ==
    (/\ lastOp.op \in {"try_to_merge_two_segments", "merge_all_possible"}
     /\ EndpointsExist(pre))
    => EndpointsExist(Current)

-----------------------------------------------------------------------------
(* Properties of paths.                                                    *)

PathsValid(g) ==
    \A name \in DOMAIN g.paths :
        \A x \in Range(g.paths[name]) : Abs(x) \in DOMAIN g.segments

\* C4: after remove_segments, a merge or repair_four_way_junctions has
\* returned, every number in every path is a segment of the graph.
C4_PathsValid ==
    pc = "idle" => PathsValid(Current)

\* a path rewritten by a merge, still there with the merged segment in it
C4_Witness ==
    /\ lastOp.op = "try_to_merge_two_segments"
    /\ pc = "idle"
    /\ \E name \in DOMAIN paths :
          \E x \in Range(paths[name]) : Abs(x) \notin DOMAIN pre.segments

\* The path with every pair [u, v] replaced by new and every pair [-v, -u]
\* by -new, its other elements kept in order.
RECURSIVE PairsReplaced(_, _, _, _)
PairsReplaced(path, u, v, new) ==
    IF Len(path) < 2 THEN path
    ELSE IF path[1] = u /\ path[2] = v
    THEN <<new>> \o PairsReplaced(SubSeq(path, 3, Len(path)), u, v, new)
    ELSE IF path[1] = -v /\ path[2] = -u
    THEN <<-new>> \o PairsReplaced(SubSeq(path, 3, Len(path)), u, v, new)
    ELSE <<path[1]>> \o PairsReplaced(Tail(path), u, v, new)

\* The path goes through u and v only as the pair [u, v] or [-v, -u], and
\* does so at least once.
ThroughThePairOnly(path, u, v) ==
    /\ PairsReplaced(path, u, v, 0) # path
    /\ \A x \in Range(PairsReplaced(path, u, v, 0)) : Abs(x) \notin {Abs(u), Abs(v)}

\* C23: when u and v are merged into the segment new, a path through the
\* pair [u, v] has new in the place of the pair (and -new in the place of
\* [-v, -u]) and its other elements in their order, whichever number the
\* merged segment has got.
C23_MergeRewritesPaths ==
    AfterMergeOfTwo =>
        \A name \in DOMAIN pre.paths :
            ThroughThePairOnly(pre.paths[name], lastOp.a, lastOp.b) =>
                /\ name \in DOMAIN paths
                /\ \E new \in MergedIds :
                      paths[name] = PairsReplaced(pre.paths[name], lastOp.a, lastOp.b, new)

-----------------------------------------------------------------------------
(* Properties of the junction repair.                                      *)

\* Two distinct starts a and b whose forward links are the same two ends c
\* and d, c and d having a and b as their only reverse links.
HasFourWayJunction(g) ==
    \E a \in DOMAIN g.forward_links, b \in DOMAIN g.forward_links :
        /\ a # b
        /\ Len(g.forward_links[a]) = 2 /\ Len(g.forward_links[b]) = 2
        /\ Range(g.forward_links[a]) = Range(g.forward_links[b])
        /\ Cardinality(Range(g.forward_links[a])) = 2
        /\ \A c \in Range(g.forward_links[a]) :
              /\ c \in DOMAIN g.reverse_links
              /\ Len(g.reverse_links[c]) = 2
              /\ Range(g.reverse_links[c]) = {a, b}

\* C10: repair_four_way_junctions on a graph without a four-way junction
\* changes no segment and no link.
C10_RepairOnlyAtJunction ==
    (/\ lastOp.op = "repair_four_way_junctions"
     /\ pc = "idle"
     /\ ~HasFourWayJunction(pre)) =>
        /\ segments = pre.segments
        /\ forward_links = pre.forward_links
        /\ reverse_links = pre.reverse_links

\* The four-way junctions of g: starts a # b and ends c # d with
\* forward[a] = forward[b] = {c, d} and reverse[c] = reverse[d] = {a, b}.
Junctions(g) ==
    {j \in (DOMAIN g.forward_links) \X (DOMAIN g.forward_links) \X
           (DOMAIN g.reverse_links) \X (DOMAIN g.reverse_links) :
        /\ j[1] # j[2] /\ j[3] # j[4]
        /\ Len(g.forward_links[j[1]]) = 2 /\ Len(g.forward_links[j[2]]) = 2
        /\ Len(g.reverse_links[j[3]]) = 2 /\ Len(g.reverse_links[j[4]]) = 2
        /\ Range(g.forward_links[j[1]]) = {j[3], j[4]}
        /\ Range(g.forward_links[j[2]]) = {j[3], j[4]}
        /\ Range(g.reverse_links[j[3]]) = {j[1], j[2]}
        /\ Range(g.reverse_links[j[4]]) = {j[1], j[2]}}

AfterRepair == lastOp.op = "repair_four_way_junctions" /\ pc = "idle"

\* The segments added by the last operation.
Bridges == DOMAIN segments \ DOMAIN pre.segments

\* The bridge of junction j on the strand that leads to its ends.
BridgesOf(j) ==
    {x \in Signed(Bridges) :
        HasLink(forward_links, x, j[3]) /\ HasLink(forward_links, x, j[4])}

\* C11: after repair_four_way_junctions on a graph with twin symmetry and
\* transpose agreement the link store still has both, every bridge has a
\* number above those in use before, and each junction {a, b} -> {c, d} of
\* the graph has a bridge x (on either strand) with the links a -> x, b -> x,
\* x -> c, x -> d and their twins, and none of the direct links.
C11_RepairKeepsLinkInvariants ==
    (/\ AfterRepair
     /\ TwinSymmetric(pre.forward_links)
     /\ TransposeAgree(pre.forward_links, pre.reverse_links)) =>
        /\ TwinSymmetric(forward_links)
        /\ TransposeAgree(forward_links, reverse_links)
        /\ \A x \in Bridges : x > 0 /\ \A n \in DOMAIN pre.segments : n < x
        /\ \A j \in Junctions(pre) :
              \E x \in Signed(Bridges) :
                 /\ \A a \in {j[1], j[2]} :
                       /\ HasLink(forward_links, a, x)
                       /\ HasLink(forward_links, -x, -a)
                       /\ \A c \in {j[3], j[4]} :
                             /\ ~HasLink(forward_links, a, c)
                             /\ ~HasLink(forward_links, -c, -a)
                 /\ \A c \in {j[3], j[4]} :
                       /\ HasLink(forward_links, x, c)
                       /\ HasLink(forward_links, -c, -x)

\* lst has the three numbers u, x, v next to each other
HasTriple(lst, u, x, v) ==
    \E i \in 1..(Len(lst) - 2) :
        lst[i] = u /\ lst[i + 1] = x /\ lst[i + 2] = v

HasPair(lst, u, v) ==
    \E i \in 1..(Len(lst) - 1) : lst[i] = u /\ lst[i + 1] = v

\* C12: after a repair that added the one bridge x to a junction
\* {a, b} -> {c, d}, a path that had a start next to an end has x between
\* them, and a path that had the reverse-complement pair has -x between them.
C12_RepairRewritesPaths ==
    (AfterRepair /\ Cardinality(Bridges) = 1) =>
        \A j \in Junctions(pre), name \in DOMAIN pre.paths :
            \A x \in BridgesOf(j), a \in {j[1], j[2]}, c \in {j[3], j[4]} :
                /\ HasPair(pre.paths[name], a, c) =>
                       HasTriple(paths[name], a, x, c)
                /\ HasPair(pre.paths[name], -c, -a) =>
                       HasTriple(paths[name], -c, -x, -a)

-----------------------------------------------------------------------------
(* Properties of the depth filter.                                         *)

\* Two segments joined by a link, whatever the strands and the direction.
Linked(g, a, b) ==
    \E u \in {a, -a}, v \in {b, -b} :
        HasLink(g.forward_links, u, v) \/ HasLink(g.forward_links, v, u)

\* The segments joined to those of S by a chain of links.
RECURSIVE ComponentOf(_, _)
ComponentOf(g, S) ==
    LET T == S \cup {b \in DOMAIN g.segments : \E a \in S : Linked(g, a, b)}
    IN  IF T = S THEN S ELSE ComponentOf(g, T)

MedianOf(g, k, S) ==
    get_median_read_depth(g, k, [i \in 1..Cardinality(S) |-> g.segments[SetToSeq(S)[i]]])

BelowCutoff(g, k, r, s) ==
    \/ RLess(g.segments[s].depth, RMul(r, MedianOf(g, k, DOMAIN g.segments)))
    \/ RLess(g.segments[s].depth, RMul(r, MedianOf(g, k, ComponentOf(g, {s}))))

HasDeadEnd(g, s) ==
    s \notin DOMAIN g.forward_links \/ s \notin DOMAIN g.reverse_links

ComponentBelow(g, k, r, s) ==
    \A t \in ComponentOf(g, {s}) :
        RLess(g.segments[t].depth, RMul(r, MedianOf(g, k, DOMAIN g.segments)))

\* a forward neighbour has s as its sole reverse neighbour, or a reverse
\* neighbour has s as its sole forward neighbour
WouldCreateDeadEnd(g, s) ==
    \/ \E d \in DOMAIN g.reverse_links :
          HasLink(g.forward_links, s, d) /\ Range(g.reverse_links[d]) = {s}
    \/ \E u \in DOMAIN g.forward_links :
          HasLink(g.forward_links, u, s) /\ Range(g.forward_links[u]) = {s}

ToRemove(g, k, r) ==
    {s \in DOMAIN g.segments :
        /\ BelowCutoff(g, k, r, s)
        /\ \/ HasDeadEnd(g, s)
           \/ ComponentBelow(g, k, r, s)
           \/ ~WouldCreateDeadEnd(g, s)}

\* The example: depths 100, 100, 5, 100 and the links 1 -> 2, 2 -> 3.
FilterExample ==
    load_from_gfa(FilterSegments(<<100, 100, 5, 100>>),
                  << <<1, 2>>, <<2, 3>> >>, EmptyMap)

\* C8: filter_by_read_depth(r) removes exactly the segments that, in the
\* graph before the call, are below cutoff and have a dead end, or a
\* component entirely below the whole-graph cutoff, or a deletion that creates
\* no dead end; the others stay as they were. In the example with r = 0.1
\* exactly segment 3 goes.
C8_FilterByReadDepth ==
    lastOp.op = "filter_by_read_depth" =>
        LET r == <<lastOp.a, lastOp.b>>
        IN  /\ DOMAIN segments = DOMAIN pre.segments \ ToRemove(pre, overlap, r)
            /\ \A s \in DOMAIN segments : segments[s] = pre.segments[s]
            /\ (pre = FilterExample /\ r = <<1, 10>>) => DOMAIN segments = {1, 2, 4}

\* the example filtered
C8_Witness ==
    /\ lastOp.op = "filter_by_read_depth"
    /\ pre = FilterExample
    /\ lastOp.a = 1 /\ lastOp.b = 10
    /\ DOMAIN segments = {1, 2, 4}

\* The components are a partition of the segment numbers of g into the
\* classes of "joined by a chain of links".
PartitionByChains(g, components) ==
    /\ \A s \in DOMAIN g.segments :
          Cardinality({<<i, j>> \in (1..Len(components)) \X (1..Cardinality(DOMAIN g.segments)) :
                          j <= Len(components[i]) /\ components[i][j] = s}) = 1
    /\ \A i \in 1..Len(components) :
          /\ components[i] # <<>>
          /\ Range(components[i]) = ComponentOf(g, {components[i][1]})

\* C22: on a twin-symmetric link store whose endpoints are all segments,
\* get_connected_components returns a partition of the segment numbers:
\* every number is in exactly one component, once, and a component is the set
\* of the segments joined to one another by a chain of links taken without
\* regard to strand or direction.  It is looked at where the depth filter
\* has called it, on the graph before the removals.
C22_ComponentsPartition ==
    (/\ lastOp.op = "filter_by_read_depth"
     /\ TwinSymmetric(pre.forward_links)
     /\ TransposeAgree(pre.forward_links, pre.reverse_links)
     /\ EndpointsExist(pre))
    => \A keys \in Orders(DOMAIN pre.segments) :
          PartitionByChains(pre, get_connected_components(pre, keys))

\* The filter has run on a graph with a component of three segments, joined
\* through the middle one by links on different strands, and a single one.
C22_Witness ==
    /\ lastOp.op = "filter_by_read_depth"
    /\ TwinSymmetric(pre.forward_links)
    /\ EndpointsExist(pre)
    /\ \E a \in DOMAIN pre.segments :
          /\ Cardinality(ComponentOf(pre, {a})) = 3
          /\ \E b \in DOMAIN pre.segments \ {a} :
                /\ HasLink(pre.forward_links, a, -b)
                /\ \E c \in DOMAIN pre.segments \ {a, b} :
                      HasLink(pre.forward_links, c, b) /\ ~Linked(pre, a, c)
    /\ \E d \in DOMAIN pre.segments : ComponentOf(pre, {d}) = {d}

-----------------------------------------------------------------------------
(* Properties of the homopolymer filter.                                   *)

NonEmptyIn(g, C) == {s \in C : Len(g.segments[s].forward_sequence) > 0}

\* Every non-empty segment of C is a homopolymer, and there is a base that
\* each of them shows on its forward or on its reverse strand.
OneBase(g, C) ==
    /\ \A s \in NonEmptyIn(g, C) : is_homopolymer(g.segments[s])
    /\ \E base \in Range(LowerCase) :
          \A s \in NonEmptyIn(g, C) :
              \/ Lower(g.segments[s].forward_sequence[1]) = base
              \/ Lower(g.segments[s].reverse_sequence[1]) = base

\* Each component of the graph before the call is kept whole or removed whole.
WholeComponents ==
    \A s \in DOMAIN pre.segments :
        \/ ComponentOf(pre, {s}) \subseteq DOMAIN segments
        \/ ComponentOf(pre, {s}) \cap DOMAIN segments = {}

\* C9 as stated: filter_homopolymer_loops keeps or removes whole components,
\* and removes a component exactly when every non-empty segment in it is a
\* homopolymer and all of them show the same base on a strand.
C9_HomopolymerAsStated ==
    lastOp.op = "filter_homopolymer_loops" =>
        /\ WholeComponents
        /\ \A s \in DOMAIN pre.segments :
              s \notin DOMAIN segments <=> OneBase(pre, ComponentOf(pre, {s}))

\* C9 (amended): filter_homopolymer_loops keeps or removes whole components,
\* and removes a component exactly when it has a non-empty segment, every
\* non-empty segment in it is a homopolymer and all of them show the same
\* base on a strand; a component of empty segments only is kept.
C9_HomopolymerComponents ==
    lastOp.op = "filter_homopolymer_loops" =>
        /\ WholeComponents
        /\ \A s \in DOMAIN pre.segments :
              s \notin DOMAIN segments <=>
                  /\ NonEmptyIn(pre, ComponentOf(pre, {s})) # {}
                  /\ OneBase(pre, ComponentOf(pre, {s}))
        /\ \A s \in DOMAIN segments : segments[s] = pre.segments[s]

\* a component of two segments showing the base on different strands is
\* removed, another component is kept
C9_Witness ==
    /\ lastOp.op = "filter_homopolymer_loops"
    /\ DOMAIN segments # {}
    /\ \E s \in DOMAIN pre.segments \ DOMAIN segments :
          \E t \in ComponentOf(pre, {s}) :
              /\ NonEmpty(pre.segments[s]) /\ NonEmpty(pre.segments[t])
              /\ Lower(pre.segments[s].forward_sequence[1]) #
                 Lower(pre.segments[t].forward_sequence[1])

-----------------------------------------------------------------------------
(* Properties of depth normalisation.                                      *)

\* C20 as stated: after normalise_read_depths the median-by-base depth is 1
\* and another call leaves every depth unchanged.
C20_NormaliseAsStated ==
    lastOp.op = "normalise_read_depths" =>
        /\ get_median_read_depth(Current, overlap, <<>>) = R(1)
        /\ normalise_read_depths(Current, overlap).segments = segments

\* C20 (amended): after normalise_read_depths has returned on a graph with
\* segments, the median-by-base depth is 1 and another call leaves every
\* depth unchanged; on a graph without segments the median stays 0; when the
\* median is 0 and there are segments the call raises and changes nothing.
C20_NormaliseIdempotent ==
    lastOp.op = "normalise_read_depths" =>
        /\ (pc = "idle" /\ DOMAIN pre.segments # {}) =>
              /\ get_median_read_depth(Current, overlap, <<>>) = R(1)
              /\ normalise_read_depths(Current, overlap).segments = segments
        /\ DOMAIN pre.segments = {} =>
              /\ pc = "idle" /\ segments = pre.segments
              /\ get_median_read_depth(Current, overlap, <<>>) = R(0)
        /\ pc = "raised" <=> NormaliseRaises(pre, overlap)
        /\ pc = "raised" => segments = pre.segments

\* three segments whose depths were changed by the call
C20_Witness ==
    /\ lastOp.op = "normalise_read_depths"
    /\ pc = "idle"
    /\ Cardinality(DOMAIN segments) = 3
    /\ \E num \in DOMAIN segments : segments[num].depth # pre.segments[num].depth
    /\ \E num \in DOMAIN segments : segments[num].depth # R(1)


-----------------------------------------------------------------------------
(* Properties of the copy-depth propagator.                                *)

\* the number of links on one end of segment n
LinkCount(links, n) == IF n \in DOMAIN links THEN Len(links[n]) ELSE 0

Unassigned(g) == DOMAIN g.segments \ DOMAIN g.copy_depths

\* The segments that the seed rule may take: no vector yet, at least L long,
\* at most one link on each end.
Seedable(g, L) ==
    {s \in Unassigned(g) :
        /\ get_length(g.segments[s]) >= L
        /\ LinkCount(g.forward_links, s) <= 1
        /\ LinkCount(g.reverse_links, s) <= 1}

\* The graph g with the vector v assigned to s and nothing else changed.
WithVector(g, s, v) == [g EXCEPT !.copy_depths = Put(g.copy_depths, s, v)]

AfterSeed == lastOp.op = "assign_single_copy_depth"

\* C17: assign_single_copy_depth(L) assigns [depth(s)] to exactly one
\* segment s and returns 1, s being a longest of the unassigned segments of
\* length >= L with at most one link on each end; when there is none it
\* changes nothing and returns 0.  A seeded segment is drawn forestgreen.
C17_SeedRule ==
    AfterSeed =>
        IF Seedable(pre, lastOp.a) = {}
        THEN lastOp.b = 0 /\ Current = pre
        ELSE /\ lastOp.b = 1
             /\ \E s \in Seedable(pre, lastOp.a) :
                   /\ \A t \in Seedable(pre, lastOp.a) :
                         get_length(pre.segments[t]) <= get_length(pre.segments[s])
                   /\ Current = WithVector(pre, s, <<pre.segments[s].depth>>)
                   /\ get_copy_number_colour(Current, segments[s]) = "forestgreen"

\* The isolated long segment of depth 37.4 was seeded with [37.4] while a
\* shorter segment could have been taken.
C17_Witness ==
    /\ AfterSeed
    /\ lastOp.b = 1
    /\ \E s \in Seedable(pre, lastOp.a) :
          /\ pre.segments[s].depth = <<187, 5>>
          /\ LinkCount(forward_links, s) = 0
          /\ LinkCount(reverse_links, s) = 0
          /\ copy_depths = Put(pre.copy_depths, s, <<<<187, 5>>>>)
          /\ \E t \in Seedable(pre, lastOp.a) :
                get_length(pre.segments[t]) < get_length(pre.segments[s])

AfterMerge == lastOp.op = "merge_copy_depths"

\* The exclusive inputs ("in") or the exclusive outputs ("out") of s.
ExclusiveSide(g, s, side) ==
    IF side = "in" THEN get_exclusive_inputs(g, s) ELSE get_exclusive_outputs(g, s)

\* The candidates of the merge rule: an unassigned segment and a side of it
\* whose exclusive neighbours are there and all assigned.
MergeCandidates(g) ==
    {c \in Unassigned(g) \X {"in", "out"} :
        /\ ExclusiveSide(g, c[1], c[2]) # <<>>
        /\ \A x \in Range(ExclusiveSide(g, c[1], c[2])) : x \in DOMAIN g.copy_depths}

\* D: the vectors of the exclusive neighbours, one after the other
MergedVectors(g, c) == SourceDepths(g, ExclusiveSide(g, c[1], c[2]))

\* |sum(D) - depth(s)| / depth(s), +infinity for a depth of 0
MergeError(g, c) == get_error(RSum(MergedVectors(g, c)), g.segments[c[1]].depth)

\* D scaled by depth(s) / sum(D), sorted descending
ScaledVectors(g, c) ==
    LET D == MergedVectors(g, c)
        factor == RDiv(g.segments[c[1]].depth, RSum(D))
    IN  SortedDescending([i \in 1..Len(D) |-> RMul(factor, D[i])])

LowestMergeCandidates(g) ==
    {c \in MergeCandidates(g) :
        \A d \in MergeCandidates(g) : RLeq(MergeError(g, c), MergeError(g, d))}

\* C15: one call of merge_copy_depths returns, and assigns at most one
\* segment: it takes a candidate of the lowest error among all candidates,
\* assigns it D scaled and sorted descending and returns 1 when that error is
\* below 1.0, and otherwise changes nothing and returns 0.  With a = [10] and
\* b = [20] the exclusive inputs of c of depth 30, c gets [20, 10].
C15_MergeRule ==
    AfterMerge =>
        /\ pc = "idle"
        /\ IF \E c \in MergeCandidates(pre) : RLess(MergeError(pre, c), R(1))
           THEN /\ lastOp.b = 1
                /\ \E c \in LowestMergeCandidates(pre) :
                      Current = WithVector(pre, c[1], ScaledVectors(pre, c))
           ELSE lastOp.b = 0 /\ Current = pre

\* The merge example has happened: a segment of depth 30 got [20, 10] from
\* its exclusive inputs [10] and [20].
C15_Witness ==
    /\ AfterMerge
    /\ pc = "idle"
    /\ lastOp.b = 1
    /\ \E c \in LowestMergeCandidates(pre) :
          /\ c[2] = "in"
          /\ pre.segments[c[1]].depth = R(30)
          /\ MergedVectors(pre, c) \in {<<R(10), R(20)>>, <<R(20), R(10)>>}
          /\ copy_depths = Put(pre.copy_depths, c[1], <<R(20), R(10)>>)

AfterRedistribute == lastOp.op = "redistribute_copy_depths"

\* the ways to put each of the first n items into one of k bins
BinChoices(n, k) == [1..n -> 1..k]

\* the items that the choice f puts into bin b, in their order
BinOf(items, f, b) ==
    LET idx == SetToSeq({i \in 1..Len(items) : f[i] = b})
    IN  [j \in 1..Len(idx) |-> items[idx[j]]]

\* Every arrangement of the vector of source into one non-empty bin per
\* connection, an assigned connection getting as many items as it has copies.
AllowedArrangements(g, source, connections) ==
    {arr \in {[b \in 1..Len(connections) |-> BinOf(g.copy_depths[source], f, b)] :
                 f \in BinChoices(Len(g.copy_depths[source]), Len(connections))} :
        \A b \in 1..Len(connections) :
            /\ arr[b] # <<>>
            /\ connections[b] \in DOMAIN g.copy_depths
                 => Len(arr[b]) = Len(g.copy_depths[connections[b]])}

\* the largest error of a connection's depth against the sum of its bin
ArrangementError(g, connections, arr) ==
    CHOOSE e \in {get_error(RSum(arr[b]), g.segments[connections[b]].depth) :
                     b \in 1..Len(connections)} :
        \A b \in 1..Len(connections) :
            RLeq(get_error(RSum(arr[b]), g.segments[connections[b]].depth), e)

BestArrangements(g, source, connections) ==
    {arr \in AllowedArrangements(g, source, connections) :
        \A other \in AllowedArrangements(g, source, connections) :
            RLeq(ArrangementError(g, connections, arr),
                 ArrangementError(g, connections, other))}

\* The sources of the redistribution rule: a segment with two or more copies
\* whose chosen exclusive neighbours (the inputs unless there are none or
\* all are assigned, then the outputs) have an unassigned member.
Sources(g) ==
    {s \in DOMAIN g.copy_depths :
        /\ s \in DOMAIN g.segments
        /\ Len(g.copy_depths[s]) >= 2
        /\ Connections(g, s) # <<>>}

\* The vectors that the arrangement arr gives to the unassigned connections.
Redistributed(g, connections, arr) ==
    [x \in DOMAIN g.copy_depths \cup Range(connections) |->
        IF x \in DOMAIN g.copy_depths THEN g.copy_depths[x]
        ELSE LET b == CHOOSE b \in 1..Len(connections) : connections[b] = x
                 factor == RDiv(g.segments[x].depth, RSum(arr[b]))
             IN  SortedDescending([i \in 1..Len(arr[b]) |-> RMul(factor, arr[b][i])])]

C14_VectorsSumToDepth ==
    \A s \in DOMAIN copy_depths :
        /\ copy_depths[s] # <<>>
        /\ s \in DOMAIN segments => RSum(copy_depths[s]) = segments[s].depth

\* A merge has assigned a vector of two or more copies that had to be scaled,
\* next to a seeded vector.
C14_Witness ==
    /\ AfterMerge
    /\ lastOp.b = 1
    /\ \E c \in MergeCandidates(pre) :
          /\ c[1] \in DOMAIN copy_depths
          /\ Len(copy_depths[c[1]]) >= 2
          /\ RSum(MergedVectors(pre, c)) # pre.segments[c[1]].depth
          /\ copy_depths[c[1]] = ScaledVectors(pre, c)

\* determine_copy_depth has been entered and has not returned.
Determining == pc \in {"assign", "merge", "redistribute"}

DetermineReturned == pc = "idle" /\ lastOp.op = "determine_copy_depth"

\* No step can make a further assignment: each of the three returns 0.
NoFurtherAssignment(g, minimum_auto_single) ==
    \A keys \in Orders(DOMAIN g.segments) :
        /\ assign_single_copy_depth(g, minimum_auto_single, keys) = Returned(g, 0)
        /\ merge_copy_depths(g, keys) = Returned(g, 0)
        /\ redistribute_copy_depths(g, keys) = Returned(g, 0)

\* Once entered, determine_copy_depth returns with nothing left to assign
\* (under SpecDetermineFair, where a call under way goes on).
DetermineTerminates ==
    Determining ~> (DetermineReturned /\ NoFurtherAssignment(Current, lastOp.a))

\* C13: determine_copy_depth terminates on every graph, so that no call of
\* it is ever stopped by an exception, and when it returns
\* assign_single_copy_depth, merge_copy_depths and redistribute_copy_depths
\* would each return 0.
C13_DetermineReturns ==
    /\ pc # "raised"
    /\ DetermineReturned => NoFurtherAssignment(Current, lastOp.a)


-----------------------------------------------------------------------------
(* Properties of sequences.                                                *)

AfterBuild == lastOp.op = "build_other_sequence_if_necessary"

\* C21: reverse_complement is an involution on the sequences over the
\* supported alphabet: the reverse complement of the strand that was built
\* from a sequence is that sequence again.
C21_ReverseComplementInvolution ==
    AfterBuild =>
        \A num \in DOMAIN segments :
            /\ reverse_complement(segments[num].reverse_sequence)
                 = segments[num].forward_sequence
            /\ reverse_complement(segments[num].forward_sequence)
                 = segments[num].reverse_sequence
            /\ reverse_complement(reverse_complement(segments[num].forward_sequence))
                 = segments[num].forward_sequence

\* The other strand of a sequence of two different ambiguity codes was built.
C21_Witness ==
    /\ AfterBuild
    /\ pre.segments[1].forward_sequence = <<"K", "b">>
    /\ pre.segments[1].reverse_sequence = <<>>
    /\ segments[1].reverse_sequence = <<"v", "M">>

-----------------------------------------------------------------------------
(* Properties of the sides of the merge rule.                               *)

\* The segments assigned by the last operation.
NewlyAssigned == DOMAIN copy_depths \ DOMAIN pre.copy_depths

\* Every link on one end of s ("in": reverse_links[s], "out":
\* forward_links[s]) comes from a segment that has a vector and that is
\* linked, on its own side, to s alone; and there is such a link.
AllOnSideQualify(g, s, side) ==
    LET store == IF side = "in" THEN g.reverse_links ELSE g.forward_links
        links == IF s \in DOMAIN store THEN store[s] ELSE <<>>
    IN  /\ links # <<>>
        /\ \A i \in 1..Len(links) :
              /\ Abs(links[i]) \in DOMAIN g.copy_depths
              /\ IF side = "in" THEN lead_exclusively_to(g, links[i], s)
                                ELSE lead_exclusively_from(g, links[i], s)

\* C26: merge_copy_depths assigns a segment from one end only when all the
\* segments linked on that end have a vector and all of them are linked to
\* this segment alone: a segment with an unassigned or a non-exclusive
\* neighbour on that end is not assigned from that end.
C26_MergeNeedsAllInputs ==
    (AfterMerge /\ pc = "idle") =>
        \A s \in NewlyAssigned :
            \E side \in {"in", "out"} :
                /\ AllOnSideQualify(pre, s, side)
                /\ copy_depths[s] = ScaledVectors(pre, <<s, side>>)

-----------------------------------------------------------------------------
(* Properties of the steps of determine_copy_depth.                         *)

\* Every vector of the state before a step is there, unchanged, after it.
VectorsKept ==
    \A s \in DOMAIN copy_depths :
        s \in DOMAIN copy_depths' /\ copy_depths'[s] = copy_depths[s]

\* C28: during determine_copy_depth a vector, once assigned to a segment, is
\* never changed or removed: every step (seed, merge, redistribute) only adds
\* vectors for segments that had none.
C28_VectorsOnlyAdded == [][VectorsKept]_vars

\* A call that began with vectors already assigned has returned, has
\* assigned further segments, and the vectors it began with are as they were.
C28_Witness ==
    /\ DetermineReturned
    /\ DOMAIN pre.copy_depths # {}
    /\ DOMAIN copy_depths \ DOMAIN pre.copy_depths # {}
    /\ \E s \in DOMAIN copy_depths : Len(copy_depths[s]) > 1
    /\ \A s \in DOMAIN pre.copy_depths : copy_depths[s] = pre.copy_depths[s]

-----------------------------------------------------------------------------
(* Properties of the ownership of copy depths.                              *)

\* C29: after any sequence of operations every key of copy_depths is the
\* number of an existing segment: a segment that is removed or merged away
\* loses its vector, and the segment that a merge creates has no vector, also
\* when it reuses the number of a segment that had one.
C29_VectorsOfExistingSegments ==
    pc = "idle" =>
        /\ DOMAIN copy_depths \subseteq DOMAIN segments
        /\ AfterMergeOfTwo => MergedIds \cap DOMAIN copy_depths = {}

-----------------------------------------------------------------------------
(* Properties of the dead ends of the depth filter.                         *)

NoDeadEnds(g) ==
    \A num \in DOMAIN g.segments : dead_end_count(g, g.segments[num]) = 0

\* No connected component of g lies entirely below the cutoff of the whole
\* graph.
NoComponentBelowCutoff(g, relative_depth_cutoff) ==
    LET whole_graph_cutoff ==
            RMul(get_median_read_depth(g, overlap, <<>>), relative_depth_cutoff)
        connected_components ==
            get_connected_components(g, SetToSeq(DOMAIN g.segments))
    IN  \A i \in 1..Len(connected_components) :
            ~all_segments_below_depth(g, connected_components[i],
                                      whole_graph_cutoff)

\* C30: when no segment has a dead end and no connected component is
\* entirely below the whole-graph cutoff before filter_by_read_depth, no
\* segment that is left after the call has a dead end, however many
\* segments the call removes.
C30_FilterCreatesNoDeadEnd ==
    (/\ lastOp.op = "filter_by_read_depth"
     /\ NoDeadEnds(pre)
     /\ NoComponentBelowCutoff(pre, <<lastOp.a, lastOp.b>>))
    => NoDeadEnds(Current)
=============================================================================
